---- MODULE Spec2Model ----
(***************************************************************************)
(* Process supervisor of the Cloud-Hypervisor driver (src/ch/ch_process.c) *)
(* for one domain object: virCHProcessStart, virCHProcessStop, the         *)
(* reconnection helper and the per-domain reconnection thread.             *)
(*                                                                         *)
(* Every operation is an operator over a context record                    *)
(*   c = [vm |-> the domain object and what it owns,                       *)
(*        log |-> the calls made so far by the running operation,          *)
(*        ret |-> the value returned by the last call,                     *)
(*        jump |-> "none", or where the operation left its straight line:  *)
(*                 a goto label, or "return"]                              *)
(* and takes an oracle record that fixes the outcome of every external     *)
(* call (monitor, cgroup, host devices, files, sockets).                   *)
(*                                                                         *)
(* The placement of the hypervisor's threads (virCHProcessSetupPid and its *)
(* callers) is modelled in full on a placement context, kept in pl, under  *)
(* the specification SpecPlace.                                            *)
(***************************************************************************)
EXTENDS Integers, Sequences, FiniteSets, TLC

VARIABLES vm, log, last, pre, prevOp, task, enumerated, pl, reg

vars == <<vm, log, last, pre, prevOp, task, enumerated, pl, reg>>

(***************************************************************************)
(* Bounds of the model.                                                    *)
(***************************************************************************)
\* OS process ids the kernel may hand out are 1..MaxPid
MaxPid == 1
\* the hypervisor answers "resource busy" to at most MaxBusy removal attempts
MaxBusy == 6
\* configured network devices of the domain
NumNets == 1
\* threads the hypervisor reports: 0..MaxThreads
MaxThreads == 1

Pids == 1..MaxPid

(***************************************************************************)
(* Domain states and reasons (virDomainState, virDomain*Reason).  Reason 0 *)
(* of every state is written "unknown".                                    *)
(***************************************************************************)
ApiStopReasons == {"destroyed", "daemon"}

NoStatus == [pid |-> 0, id |-> -1, state |-> "none", reason |-> "none"]

(***************************************************************************)
(* The log of calls: entries <<name, index, result>>.                      *)
(***************************************************************************)
Ev(c, name, i, res) == [c EXCEPT !.log = Append(@, <<name, i, res>>)]

Has(l, name) == \E i \in DOMAIN l : l[i][1] = name

HasRes(l, name, res) == \E i \in DOMAIN l : l[i][1] = name /\ l[i][3] = res

Count(l, name) == Cardinality({i \in DOMAIN l : l[i][1] = name})

First(l, name) == CHOOSE i \in DOMAIN l : l[i][1] = name /\ \A j \in 1..(i-1) : l[j][1] # name

Ret(c, r) == [c EXCEPT !.ret = r]

Goto(c, label) == [c EXCEPT !.jump = label]

\* F applied to the value of c, computed once
Bind(c, F(_)) == CHOOSE r \in {F(x) : x \in {c}} : TRUE

\* the next statement of a function body: skipped once the body was left
Then(c, F(_)) == Bind(c, LAMBDA x : IF x.jump # "none" THEN x ELSE F(x))

(***************************************************************************)
(* virDomainObjSetState, virDomainObjIsActive, virDomainObjSave            *)
(***************************************************************************)
virDomainObjSetState(c, state, reason) ==
    Ev([c EXCEPT !.vm.state = state, !.vm.reason = reason], "virDomainObjSetState", 0, state)

virDomainObjIsActive(c) == c.vm.id # -1

virDomainObjSave(c, ok) ==
    IF ok
    THEN Ret(Ev([c EXCEPT !.vm.status = [pid |-> c.vm.pid, id |-> c.vm.id,
                                          state |-> c.vm.state, reason |-> c.vm.reason]],
                "virDomainObjSave", 0, "ok"), 0)
    ELSE Ret(Ev(c, "virDomainObjSave", 0, "fail"), -1)

(***************************************************************************)
(* virCHMonitorClose: releases the channel and terminates the hypervisor   *)
(* process the connection was attached to.                                 *)
(***************************************************************************)
virCHMonitorClose(c) ==
    Ev([c EXCEPT !.vm.nlive = IF @ > 0 THEN @ - 1 ELSE 0,
                 !.vm.procAlive = FALSE,
                 !.vm.threads = <<>>],
       "virCHMonitorClose", 0, IF c.vm.monitor THEN "open" ELSE "null")

(***************************************************************************)
(* chRemoveCgroup: nothing to do without a cgroup handle; otherwise one    *)
(* removal attempt whose result the oracle fixes: the first o.busy         *)
(* attempts answer -EBUSY, every later one answers o.cgFinal ("ok", "EIO"  *)
(* or, for a cgroup that stays busy, "EBUSY").  A removal that succeeds    *)
(* takes the domain's scope and the sub-scopes of its threads with it.     *)
(***************************************************************************)
chRemoveCgroupResult(c, attempt, o) ==
    IF ~c.vm.cgroup THEN "ok"
    ELSE IF attempt <= o.busy THEN "EBUSY"
    ELSE o.cgFinal

chRemoveCgroup(c, attempt, o) ==
    LET r == chRemoveCgroupResult(c, attempt, o) IN
    IF ~c.vm.cgroup THEN Ret(c, 0)
    ELSE IF r = "ok"
         THEN Ret(Ev([c EXCEPT !.vm.cgroup = FALSE, !.vm.scope = FALSE, !.vm.subscopes = {}],
                     "chRemoveCgroup", attempt, r), 0)
         ELSE Ret(Ev(c, "chRemoveCgroup", attempt, r), -1)

(***************************************************************************)
(* The retry loop of virCHProcessStop (label retry).                       *)
(***************************************************************************)
RetryLimit == 5

\* mutant: the bound is tested after the count was raised
RetryAgain_Inclusive(r, retries) == r = "EBUSY" /\ retries + 1 < RetryLimit

\* mutant: every failure is retried
RetryAgain_AnyError(r, retries) == retries < RetryLimit

\* mutant: a busy cgroup is retried without a bound
RetryAgain_Forever(r, retries) == r = "EBUSY"

RetryAgain(r, retries) == r = "EBUSY" /\ retries < RetryLimit

RECURSIVE RemoveCgroupRetry(_, _, _)
RemoveCgroupRetry(c, retries, o) ==
    LET attempt == retries + 1
        r == chRemoveCgroupResult(c, attempt, o)
        c1 == chRemoveCgroup(c, attempt, o)
    IN IF c1.ret < 0
       THEN IF RetryAgain(r, retries)
            THEN RemoveCgroupRetry(Ev(c1, "g_usleep", attempt, ""), retries + 1, o)
            ELSE Ev(c1, "VIR_WARN", 0, "cgroup")
       ELSE c1

(***************************************************************************)
(* chProcessRemoveDomainStatus                                             *)
(***************************************************************************)
chProcessRemoveDomainStatus(c, o) ==
    LET c1 == IF c.vm.status = NoStatus
              THEN Ev(c, "unlink", 0, "xml:ENOENT")
              ELSE IF o.unlinkXml = "ok"
                   THEN Ev([c EXCEPT !.vm.status = NoStatus], "unlink", 0, "xml:ok")
                   ELSE Ev(Ev(c, "unlink", 0, "xml:EACCES"), "VIR_WARN", 0, "xml")
        c2 == IF o.unlinkPid = "ok"
              THEN Ev(c1, "unlink", 1, "pid:ok")
              ELSE Ev(Ev(c1, "unlink", 1, "pid:EACCES"), "VIR_WARN", 0, "pid")
    IN c2

(***************************************************************************)
(* virCHProcessStop                                                        *)
(***************************************************************************)
\* mutant: the monitor is closed without testing that there is one
StopCloseMonitor_Unconditional(c) ==
    [virCHMonitorClose(c) EXCEPT !.vm.monitor = FALSE]

\* mutant: the monitor is closed and the domain keeps its reference to it
StopCloseMonitor_KeepReference(c) ==
    IF c.vm.monitor THEN virCHMonitorClose(c) ELSE c

StopCloseMonitor(c) ==
    IF c.vm.monitor
    THEN [virCHMonitorClose(c) EXCEPT !.vm.monitor = FALSE]
    ELSE c

StopClearIds(c) == [c EXCEPT !.vm.pid = -1, !.vm.id = -1]

\* mutant: a failed cgroup removal aborts Stop with an error
virCHProcessStop_AbortOnCgroupFailure(c, reason, o) ==
    LET c1 == StopCloseMonitor(Ev(c, "virCHProcessStop", 0, reason))
        c3 == RemoveCgroupRetry(c1, 0, o)
    IN IF c3.ret < 0
       THEN Ret(Ev(c3, "virCHProcessStop:return", 0, "-1"), -1)
       ELSE Ret(Ev(virDomainObjSetState(StopClearIds(c3), "shutoff", reason),
                   "virCHProcessStop:return", 0, "0"), 0)

\* Stop up to the label retry
StopBegin(c, reason) ==
    LET c0 == Ev(c, "virCHProcessStop", 0, reason)
        c1 == StopCloseMonitor(c0)
    IN Ev([c1 EXCEPT !.vm.hostdevs = FALSE], "chHostdevReAttachDomainDevices", 0, "")

\* Stop from the end of the retry loop to its return
StopEnd(c, reason, o) ==
    LET c4 == StopClearIds(c)
        c5 == chProcessRemoveDomainStatus(c4, o)
        c6 == virDomainObjSetState(c5, "shutoff", reason)
    IN Ret(Ev(c6, "virCHProcessStop:return", 0, "0"), 0)

virCHProcessStop(c, reason, o) ==
    StopEnd(RemoveCgroupRetry(StopBegin(c, reason), 0, o), reason, o)

(***************************************************************************)
(* Oracles of Stop.  An oracle value that the run cannot consult (the      *)
(* result of removing a cgroup or a file that is not there) is fixed, so   *)
(* that equal runs are enumerated once.  A Stop called directly draws      *)
(* every combination, with 0..MaxBusy busy answers; a Stop run by Start or *)
(* by the reconnection path draws the runs with at most one failing        *)
(* sub-step.                                                               *)
(***************************************************************************)
CgFinals == {"ok", "EIO", "EBUSY"}

StopOraclesFor(v, busySet) ==
    {o \in [busy : busySet, cgFinal : CgFinals, unlinkXml : {"ok", "EACCES"},
            unlinkPid : {"ok", "EACCES"}] :
        /\ (~v.cgroup => o.busy = 0 /\ o.cgFinal = "ok")
        /\ (o.cgFinal = "EBUSY" => o.busy = 0)
        /\ (v.status = NoStatus => o.unlinkXml = "ok")}

StopOracles(v) == StopOraclesFor(v, 0..MaxBusy)

Faults(o) ==
    (IF o.cgFinal # "ok" THEN 1 ELSE 0) + (IF o.unlinkXml # "ok" THEN 1 ELSE 0)
    + (IF o.unlinkPid # "ok" THEN 1 ELSE 0)

NestedStopOracles(v) == {o \in StopOraclesFor(v, {0}) : Faults(o) <= 1}

(***************************************************************************)
(* chProcessAddNetworkDevices.  o.sock is the outcome of opening and       *)
(* connecting the control socket, o.net[i] the outcome for device i:       *)
(* the step that fails ("build", "send" or "none") and the HTTP status     *)
(* received (negative: no response).                                       *)
(***************************************************************************)
\* mutant: every 2xx status is taken for success
HttpOk_Any2xx(http) == http >= 200 /\ http < 300

HttpOk(http) == ~(http # 204 /\ http # 200)

NetOutcomes ==
    {[fail |-> "build", http |-> 0], [fail |-> "send", http |-> 0]}
    \cup {[fail |-> "none", http |-> h] : h \in {-1, 200, 201, 204, 404}}

RECURSIVE AddNetLoop(_, _, _)
\* mutant: a device that fails is skipped and the loop goes on
AddNetLoop_SkipFailed(c, i, o) ==
    IF i > c.vm.nnets
    THEN Ret(Ev(c, "close_socket", 0, "ok"), 0)
    ELSE LET out == o.net[i]
             c1 == Ev(c, "virCHMonitorBuildNetJson", i, IF out.fail = "build" THEN "fail" ELSE "ok")
             c2 == Ev(c1, "virSocketSendMsgWithFD", i, IF out.fail = "send" THEN "fail" ELSE "ok")
             c3 == Ev(c2, "close_fds", i, "")
             c4 == Ev(c3, "virSocketRecvHttpResponse", i, ToString(out.http))
         IN IF out.fail = "build" THEN AddNetLoop(c1, i + 1, o)
            ELSE IF out.fail = "send" THEN AddNetLoop(c2, i + 1, o)
            ELSE AddNetLoop(c4, i + 1, o)

AddNetLoop(c, i, o) ==
    IF i > c.vm.nnets
    THEN Ret(Ev(c, "close_socket", 0, "ok"), 0)
    ELSE LET out == o.net[i]
             c1 == Ev(c, "virCHMonitorBuildNetJson", i, IF out.fail = "build" THEN "fail" ELSE "ok")
             c2 == Ev(c1, "virSocketSendMsgWithFD", i, IF out.fail = "send" THEN "fail" ELSE "ok")
             c3 == Ev(c2, "close_fds", i, "")
             c4 == Ev(c3, "virSocketRecvHttpResponse", i, ToString(out.http))
         IN IF out.fail = "build" THEN Ret(Ev(c1, "close_socket", 0, "err"), -1)
            ELSE IF out.fail = "send" THEN Ret(Ev(c2, "close_socket", 0, "err"), -1)
            ELSE IF out.http < 0 THEN Ret(Ev(c4, "close_socket", 0, "err"), -1)
            ELSE IF ~HttpOk(out.http) THEN Ret(Ev(c4, "close_socket", 0, "err"), -1)
            ELSE AddNetLoop(c4, i + 1, o)

chProcessAddNetworkDevices(c, o) ==
    IF o.sock = "socket_fail" THEN Ret(Ev(c, "socket", 0, "fail"), -1)
    ELSE LET c1 == Ev(c, "socket", 0, "ok") IN
         IF o.sock = "path_too_long" THEN Ret(Ev(c1, "virStrcpyStatic", 0, "fail"), -1)
         ELSE IF o.sock = "connect_fail"
              THEN Ret(Ev(Ev(c1, "connect", 0, "fail"), "close_socket", 0, "connect"), -1)
              ELSE AddNetLoop(Ev(c1, "connect", 0, "ok"), 1, o)

(***************************************************************************)
(* virCHMonitorNew / virCHProcessConnectMonitor: launches the hypervisor   *)
(* process and attaches to it; records the process id in the domain.       *)
(***************************************************************************)
virCHProcessConnectMonitor(c, o) ==
    IF o.fail = "monitor"
    THEN Ev(c, "virCHMonitorNew", 0, "fail")
    ELSE Ev([c EXCEPT !.vm.monitor = TRUE, !.vm.nlive = @ + 1, !.vm.pid = o.pid,
                      !.vm.procAlive = TRUE, !.vm.threads = <<>>],
            "virCHMonitorNew", o.pid, "ok")

(***************************************************************************)
(* virCHMonitorRefreshThreadInfo: replaces the cached thread records.      *)
(***************************************************************************)
virCHMonitorRefreshThreadInfo(c, ok, threads) ==
    IF ok
    THEN Ret(Ev([c EXCEPT !.vm.threads = threads], "virCHMonitorRefreshThreadInfo",
                Len(threads), "ok"), Len(threads))
    ELSE Ret(Ev([c EXCEPT !.vm.threads = <<>>], "virCHMonitorRefreshThreadInfo", 0, "fail"), -1)

(***************************************************************************)
(* virCHProcessUpdateStatus, virCHProcessUpdateInfo.  The reply is "fail"  *)
(* (no answer), "nokey" (an answer without a state) or the state reported. *)
(***************************************************************************)
InfoReplies == {"fail", "nokey", "Created", "Running", "Shutdown", "Paused"}

\* the replies drawn for the query that follows a successful boot
InfoRepliesAtBoot == {"fail", "Running", "Paused"}

virCHProcessUpdateStatus(c, value) ==
    IF value = "nokey" THEN c
    ELSE IF value = "Created" THEN virDomainObjSetState(c, "nostate", "unknown")
    ELSE IF value = "Running" THEN virDomainObjSetState(c, "running", "unknown")
    ELSE IF value = "Shutdown" THEN virDomainObjSetState(c, "shutdown", "unknown")
    ELSE IF value = "Paused" THEN virDomainObjSetState(c, "pmsuspended", "unknown")
    ELSE c

virCHProcessUpdateInfo(c, reply) ==
    IF reply = "fail"
    THEN Ret(Ev(c, "virCHMonitorGetInfo", 0, "fail"), -1)
    ELSE Ret(virCHProcessUpdateStatus(Ev(c, "virCHMonitorGetInfo", 0, reply), reply), 0)

(***************************************************************************)
(* virCHProcessInitCpuAffinity                                             *)
(***************************************************************************)
virCHProcessInitCpuAffinity(c, o) ==
    IF c.vm.pid = 0
    THEN Ret(Ev(c, "virCHProcessInitCpuAffinity", 0, "not started"), -1)
    ELSE IF o.fail = "affinity"
         THEN Ret(Ev(c, "virCHProcessInitCpuAffinity", c.vm.pid, "fail"), -1)
         ELSE Ret(Ev(c, "virCHProcessInitCpuAffinity", c.vm.pid, "ok"), 0)

(***************************************************************************)
(* The thread placement of virCHProcessSetupThreads: the emulator threads, *)
(* then the I/O threads, then the vCPUs.  o.placeFail is the index, in the *)
(* inventory, of the thread whose virCHProcessSetupPid fails (0: none).    *)
(***************************************************************************)
ThreadKinds == {"emulator", "iothread", "vcpu"}

RECURSIVE SetupThreadsOfKind(_, _, _, _)
SetupThreadsOfKind(c, kind, i, o) ==
    IF i > Len(c.vm.threads) THEN Ret(c, 0)
    ELSE IF c.vm.threads[i] # kind THEN SetupThreadsOfKind(c, kind, i + 1, o)
    ELSE IF o.placeFail = i
         THEN Ret(Ev(c, "virCHProcessSetupPid", i, kind \o ":fail"), -1)
         ELSE SetupThreadsOfKind(Ev([c EXCEPT !.vm.subscopes = IF c.vm.cgroup THEN @ \cup {i} ELSE @],
                                    "virCHProcessSetupPid", i, kind \o ":ok"), kind, i + 1, o)

virCHProcessSetupEmulatorThreads(c, o) == SetupThreadsOfKind(c, "emulator", 1, o)

virCHProcessSetupIOThreads(c, o) == SetupThreadsOfKind(c, "iothread", 1, o)

virCHProcessSetupVcpus(c, o) == SetupThreadsOfKind(c, "vcpu", 1, o)

virCHProcessSetupThreads(c, o) ==
    LET c0 == virCHMonitorRefreshThreadInfo(c, o.fail # "refresh", o.threads) IN
    IF c0.ret <= 0 THEN c0
    ELSE LET c1 == virCHProcessSetupEmulatorThreads(c0, o)
             c2 == IF c1.ret = 0 THEN virCHProcessSetupIOThreads(c1, o) ELSE c1
             c3 == IF c2.ret = 0 THEN virCHProcessSetupVcpus(c2, o) ELSE c2
             c4 == IF c3.ret = 0 THEN virDomainObjSave(c3, o.fail # "save_threads") ELSE c3
         IN c4

(***************************************************************************)
(* virCHProcessStart, statement by statement.                              *)
(***************************************************************************)
StartPrepareHostdevs(c, o) ==
    IF o.fail = "hostdev"
    THEN Goto(Ev(c, "chHostdevPrepareDomainDevices", 0, "fail"), "cleanup")
    ELSE Ev([c EXCEPT !.vm.hostdevs = TRUE], "chHostdevPrepareDomainDevices", 0, "ok")

StartCreateVM(c, o) ==
    IF o.fail = "createvm"
    THEN Goto(Ev(c, "virCHMonitorCreateVM", 0, "fail"), "cleanup")
    ELSE Ev(c, "virCHMonitorCreateVM", 0, "ok")

\* mutant: a new monitor is created although the domain has one
StartMonitor_AlwaysNew(c, o) ==
    LET c1 == virCHProcessConnectMonitor(c, o) IN
    IF ~c1.vm.monitor THEN Goto(c1, "cleanup") ELSE StartCreateVM(c1, o)

StartMonitor(c, o) ==
    IF ~c.vm.monitor
    THEN LET c1 == virCHProcessConnectMonitor(c, o) IN
         IF ~c1.vm.monitor THEN Goto(c1, "cleanup") ELSE StartCreateVM(c1, o)
    ELSE c

StartSetId(c) == [c EXCEPT !.vm.id = c.vm.pid]

\* mutant: the result of the handoff is not tested
StartAddNetworkDevices_IgnoreFailure(c, o) ==
    chProcessAddNetworkDevices(Ev(c, "chProcessAddNetworkDevices", 0, ""), o)

StartAddNetworkDevices(c, o) ==
    LET c1 == chProcessAddNetworkDevices(Ev(c, "chProcessAddNetworkDevices", 0, ""), o) IN
    IF c1.ret < 0 THEN Goto(c1, "cleanup") ELSE c1

StartSetupCgroup(c, o) ==
    IF o.fail = "cgroup"
    THEN Goto(Ev(c, "chSetupCgroup", 0, "fail"), "cleanup")
    ELSE Ev([c EXCEPT !.vm.cgroup = TRUE, !.vm.scope = TRUE], "chSetupCgroup", 0, "ok")

StartInitCpuAffinity(c, o) ==
    LET c1 == virCHProcessInitCpuAffinity(c, o) IN
    IF c1.ret < 0 THEN Goto(c1, "cleanup") ELSE c1

StartInterfaces(c, o) ==
    IF o.fail = "ifup"
    THEN Goto(Ret(Ev(c, "chInterfaceStartDevices", 0, "fail"), -1), "return")
    ELSE Ev(c, "chInterfaceStartDevices", 0, "ok")

StartBootVM(c, o) ==
    IF o.fail = "boot"
    THEN Goto(Ev(c, "virCHMonitorBootVM", 0, "fail"), "cleanup")
    ELSE Ev(c, "virCHMonitorBootVM", 0, "ok")

StartRefresh(c, o) ==
    virCHProcessUpdateInfo(virCHMonitorRefreshThreadInfo(c, TRUE, o.threads), o.info)

StartSetupThreads(c, o) ==
    LET c1 == virCHProcessSetupThreads(Ev(c, "virCHProcessSetupThreads", 0, ""), o) IN
    IF c1.ret < 0 THEN Goto(c1, "cleanup") ELSE c1

StartGlobalCpuCgroup(c, o) ==
    IF o.fail = "globalcpu"
    THEN Goto(Ev(c, "chSetupGlobalCpuCgroup", 0, "fail"), "cleanup")
    ELSE Ev(c, "chSetupGlobalCpuCgroup", 0, "ok")

StartSetRunning(c, reason) == virDomainObjSetState(c, "running", reason)

\* mutant: the result of the persist is not tested
StartSave_IgnoreFailure(c, o) == virDomainObjSave(c, o.fail # "save")

StartSave(c, o) ==
    LET c1 == virDomainObjSave(c, o.fail # "save") IN
    IF c1.ret < 0 THEN Goto(c1, "cleanup") ELSE c1

\* mutant: the threads are placed before the guest is booted
StartBody_PlaceBeforeBoot(c, reason, o) ==
    LET c1 == StartPrepareHostdevs(Ev(c, "virCHProcessStart", 0, reason), o)
        c2 == Then(c1, LAMBDA x : StartMonitor(x, o))
        c3 == Then(c2, LAMBDA x : StartSetId(x))
        c4 == Then(c3, LAMBDA x : StartAddNetworkDevices(x, o))
        c5 == Then(c4, LAMBDA x : StartSetupCgroup(x, o))
        c6 == Then(c5, LAMBDA x : StartInitCpuAffinity(x, o))
        c7 == Then(c6, LAMBDA x : StartInterfaces(x, o))
        c8 == Then(c7, LAMBDA x : StartSetupThreads(x, o))
        c9 == Then(c8, LAMBDA x : StartBootVM(x, o))
        c10 == Then(c9, LAMBDA x : StartRefresh(x, o))
        c11 == Then(c10, LAMBDA x : StartGlobalCpuCgroup(x, o))
        c12 == Then(c11, LAMBDA x : StartSetRunning(x, reason))
        c13 == Then(c12, LAMBDA x : StartSave(x, o))
    IN Then(c13, LAMBDA x : Ret(x, 0))

\* the body up to "return 0", or to the jump that leaves it
StartBody(c, reason, o) ==
    LET c1 == StartPrepareHostdevs(Ev(c, "virCHProcessStart", 0, reason), o)
        c2 == Then(c1, LAMBDA x : StartMonitor(x, o))
        c3 == Then(c2, LAMBDA x : StartSetId(x))
        c4 == Then(c3, LAMBDA x : StartAddNetworkDevices(x, o))
        c5 == Then(c4, LAMBDA x : StartSetupCgroup(x, o))
        c6 == Then(c5, LAMBDA x : StartInitCpuAffinity(x, o))
        c7 == Then(c6, LAMBDA x : StartInterfaces(x, o))
        c8 == Then(c7, LAMBDA x : StartBootVM(x, o))
        c9 == Then(c8, LAMBDA x : StartRefresh(x, o))
        c10 == Then(c9, LAMBDA x : StartSetupThreads(x, o))
        c11 == Then(c10, LAMBDA x : StartGlobalCpuCgroup(x, o))
        c12 == Then(c11, LAMBDA x : StartSetRunning(x, reason))
        c13 == Then(c12, LAMBDA x : StartSave(x, o))
    IN Then(c13, LAMBDA x : Ret(x, 0))

\* label cleanup: ret is still -1 there
StartCleanup(c, so) == Ret(virCHProcessStop(c, "failed", so), -1)

\* from the end of the body to the return
StartFinish(b, so) ==
    LET r == IF b.jump = "cleanup" THEN StartCleanup(b, so) ELSE b
    IN Ev(Goto(r, "none"), "virCHProcessStart:return", 0, ToString(r.ret))

virCHProcessStart(c, reason, o, so) == StartFinish(StartBody(c, reason, o), so)

(***************************************************************************)
(* virCHConnectMonitor: the result of virCHMonitorOpen is stored in the    *)
(* domain before it is tested.                                             *)
(***************************************************************************)
virCHConnectMonitor(c, o) ==
    IF o.fail = "monitor"
    THEN Ret(Ev([c EXCEPT !.vm.monitor = FALSE], "virCHMonitorOpen", 0, "fail"), -1)
    ELSE Ret(Ev([c EXCEPT !.vm.monitor = TRUE, !.vm.nlive = @ + 1],
                "virCHMonitorOpen", 0, "ok"), 0)

(***************************************************************************)
(* virCHProcessReconnect, statement by statement.                          *)
(***************************************************************************)
ReconnectRestoreJob(c) ==
    Ev([c EXCEPT !.vm.job = "none"], "virCHDomainObjRestoreJob", 0, "")

\* mutant: the thread goes on after a failure to begin the job
ReconnectBeginJob_IgnoreFailure(c, o) ==
    IF o.fail = "beginjob"
    THEN Ev(c, "virCHDomainObjBeginJob", 0, "fail")
    ELSE Ev([c EXCEPT !.vm.job = "modify", !.jobStarted = TRUE],
            "virCHDomainObjBeginJob", 0, "ok")

ReconnectBeginJob(c, o) ==
    IF o.fail = "beginjob"
    THEN Goto(Ev(c, "virCHDomainObjBeginJob", 0, "fail"), "error")
    ELSE Ev([c EXCEPT !.vm.job = "modify", !.jobStarted = TRUE],
            "virCHDomainObjBeginJob", 0, "ok")

ReconnectHostdevs(c, o) ==
    IF o.fail = "hostdev"
    THEN Goto(Ev(c, "chHostdevUpdateActiveDomainDevices", 0, "fail"), "error")
    ELSE Ev([c EXCEPT !.vm.hostdevs = TRUE], "chHostdevUpdateActiveDomainDevices", 0, "ok")

ReconnectMonitor(c, o) ==
    LET c1 == virCHConnectMonitor(c, o) IN
    IF c1.ret < 0 THEN Goto(c1, "error") ELSE c1

ReconnectSetId(c) == [c EXCEPT !.vm.id = c.vm.pid]

ReconnectMachineName(c, o) ==
    IF o.fail = "machinename"
    THEN Goto(Ev(c, "virCHDomainGetMachineName", 0, "fail"), "error")
    ELSE Ev(c, "virCHDomainGetMachineName", 0, "ok")

\* mutant: the scope found on the host is removed and the domain goes on
ReconnectCgroup_RemoveStale(c, o) ==
    IF o.fail = "cgroup"
    THEN Goto(Ev(c, "chConnectCgroup", 0, "fail"), "error")
    ELSE Ev(Ev([c EXCEPT !.vm.cgroup = FALSE, !.vm.scope = FALSE], "chConnectCgroup", 0, "ok"),
            "chRemoveCgroup", 1, "ok")

ReconnectCgroup(c, o) ==
    IF o.fail = "cgroup"
    THEN Goto(Ev(c, "chConnectCgroup", 0, "fail"), "error")
    ELSE Ev([c EXCEPT !.vm.cgroup = c.vm.scope], "chConnectCgroup", 0, "ok")

ReconnectUpdateState(c, o) ==
    LET c1 == virCHProcessUpdateInfo(c, o.info) IN
    IF c1.ret < 0 THEN Goto(c1, "error") ELSE c1

\* mutant: a reported shutdown is not taken for a pending shutdown
ShutdownPending_PausedOnly(v) ==
    v.state = "paused" /\ v.reason = "shutting down"

ShutdownPending(v) ==
    v.state = "shutdown" \/ (v.state = "paused" /\ v.reason = "shutting down")

ReconnectCheckShutdown(c) ==
    IF ShutdownPending(c.vm) THEN Goto(c, "finish") ELSE c

\* mutant: the reconciled state is not persisted
ReconnectSave_Skip(c, o) == c

ReconnectSave(c, o) ==
    LET c1 == virDomainObjSave(c, o.fail # "save") IN
    IF c1.ret < 0 THEN Goto(c1, "error") ELSE c1

ReconnectBody(c, o) ==
    LET c0 == ReconnectRestoreJob(Ev(c, "virCHProcessReconnect", 0, ""))
        c1 == ReconnectBeginJob(c0, o)
        c2 == Then(c1, LAMBDA x : ReconnectHostdevs(x, o))
        c3 == Then(c2, LAMBDA x : ReconnectMonitor(x, o))
        c4 == Then(c3, LAMBDA x : ReconnectSetId(x))
        c5 == Then(c4, LAMBDA x : ReconnectMachineName(x, o))
        c6 == Then(c5, LAMBDA x : ReconnectCgroup(x, o))
        c7 == Then(c6, LAMBDA x : ReconnectUpdateState(x, o))
        c8 == Then(c7, LAMBDA x : ReconnectCheckShutdown(x))
    IN Then(c8, LAMBDA x : ReconnectSave(x, o))

\* mutant: the error path does not stop the domain
ReconnectError_NoStop(c, so) == c

\* label error
ReconnectError(c, so) ==
    IF virDomainObjIsActive(c) THEN virCHProcessStop(c, "unknown", so) ELSE c

\* the finish-shutdown branch
ReconnectFinishShutdown(c, so) == virCHProcessStop(c, "daemon", so)

virDomainObjEndAPI(c) ==
    Ev([c EXCEPT !.vm.locked = FALSE, !.vm.refs = @ - 1], "virDomainObjEndAPI", 0, "")

\* mutant: the job is ended whether or not it was begun
ReconnectCleanup_AlwaysEndJob(c) ==
    LET r == IF ~virDomainObjIsActive(c)
             THEN Ev(c, "virCHDomainRemoveInactive", 0, "")
             ELSE c
    IN virDomainObjEndAPI(Ev([r EXCEPT !.vm.job = "none"], "virCHDomainObjEndJob", 0, ""))

\* mutant: the domain is unlocked and unreferenced only after a job was ended
ReconnectCleanup_EndAPIWithJob(c) ==
    IF c.jobStarted
    THEN LET r == IF ~virDomainObjIsActive(c)
                  THEN Ev(c, "virCHDomainRemoveInactive", 0, "")
                  ELSE c
         IN virDomainObjEndAPI(Ev([r EXCEPT !.vm.job = "none"], "virCHDomainObjEndJob", 0, ""))
    ELSE IF ~virDomainObjIsActive(c)
         THEN Ev(c, "virCHDomainRemoveInactiveJob", 0, "")
         ELSE c

\* label cleanup
ReconnectCleanup(c) ==
    LET c1 == IF c.jobStarted
              THEN LET r == IF ~virDomainObjIsActive(c)
                            THEN Ev(c, "virCHDomainRemoveInactive", 0, "")
                            ELSE c
                   IN Ev([r EXCEPT !.vm.job = "none"], "virCHDomainObjEndJob", 0, "")
              ELSE IF ~virDomainObjIsActive(c)
                   THEN Ev(c, "virCHDomainRemoveInactiveJob", 0, "")
                   ELSE c
    IN virDomainObjEndAPI(c1)

\* from the end of the body to the return
ReconnectFinish(b, so) ==
    LET r == IF b.jump = "error" THEN ReconnectError(b, so)
             ELSE IF b.jump = "finish" THEN ReconnectFinishShutdown(b, so)
             ELSE b
    IN Ev(Goto(ReconnectCleanup(r), "none"), "virCHProcessReconnect:return", 0, "")

virCHProcessReconnect(c, o, so) == ReconnectFinish(ReconnectBody(c, o), so)

(***************************************************************************)
(* chProcessReconnectHelper: the callback of the enumeration pass.         *)
(* Returns with c.spawned set when the reconnection thread was created.    *)
(***************************************************************************)
\* mutant: a domain without a process id is not skipped
HelperSkips_Never(v) == FALSE

HelperSkips(v) == v.pid = 0

HelperTakeLocks(c) ==
    Ev([c EXCEPT !.vm.nwlocks = @ + 1, !.vm.locked = TRUE, !.vm.refs = @ + 1],
       "virObjectLock", 0, "")

\* mutant: the domain whose thread could not be created is not stopped
HelperSpawnFailed_NoStop(c, so) ==
    LET c1 == Ev(c, "virThreadCreateFull", 0, "fail")
        c2 == Ev(c1, "virCHDomainRemoveInactiveJobLocked", 0, "")
        c3 == virDomainObjEndAPI(c2)
        c4 == Ev([c3 EXCEPT !.vm.nwlocks = @ - 1], "virNWFilterUnlockFilterUpdates", 0, "")
    IN Ret(c4, -1)

HelperSpawnFailed(c, so) ==
    LET c1 == virCHProcessStop(Ev(c, "virThreadCreateFull", 0, "fail"), "failed", so)
        c2 == Ev(c1, "virCHDomainRemoveInactiveJobLocked", 0, "")
        c3 == virDomainObjEndAPI(c2)
        c4 == Ev([c3 EXCEPT !.vm.nwlocks = @ - 1], "virNWFilterUnlockFilterUpdates", 0, "")
    IN Ret(c4, -1)

chProcessReconnectHelper(c, spawn, so) ==
    LET c0 == Ev(c, "chProcessReconnectHelper", 0, "") IN
    IF HelperSkips(c.vm) THEN Ret(c0, 0)
    ELSE LET c1 == HelperTakeLocks(c0) IN
         IF spawn = "fail"
         THEN HelperSpawnFailed(c1, so)
         ELSE Ret(Ev(c1, "virThreadCreateFull", 0, "ok"), 0)

(***************************************************************************)
(* Oracles of Start and of the reconnection thread.  As for Stop, a value  *)
(* the run cannot reach is fixed; the reply to the state query after boot  *)
(* varies on the runs that succeed.                                        *)
(***************************************************************************)
Inventories == UNION {[1..n -> ThreadKinds] : n \in 0..MaxThreads}

SockOutcomes == {"ok", "socket_fail", "path_too_long", "connect_fail"}

NetAllOk(n) == [i \in 1..n |-> [fail |-> "none", http |-> 200]]

NetScripts(n) == [1..n -> NetOutcomes]

NetScriptOk(n, net) == \A i \in 1..n : net[i].fail = "none" /\ HttpOk(net[i].http)

StartOracle(f, p, sk, net, info, threads, pf) ==
    [fail |-> f, pid |-> p, sock |-> sk, net |-> net, info |-> info,
     threads |-> threads, placeFail |-> pf]

StartOracles(v) ==
    LET n == v.nnets
        early == {StartOracle(f, p, "ok", NetAllOk(n), "Running", <<>>, 0) :
                    f \in {"hostdev", "monitor", "createvm"}, p \in Pids}
        sockfail == {StartOracle("none", p, sk, NetAllOk(n), "Running", <<>>, 0) :
                    sk \in SockOutcomes \ {"ok"}, p \in Pids}
        netfail == {StartOracle("none", p, "ok", net, "Running", <<>>, 0) :
                    net \in {x \in NetScripts(n) : ~NetScriptOk(n, x)}, p \in Pids}
        mid == {StartOracle(f, p, "ok", NetAllOk(n), "Running", <<>>, 0) :
                    f \in {"cgroup", "affinity", "ifup", "boot"}, p \in Pids}
        norefresh == {StartOracle("refresh", p, "ok", NetAllOk(n), "Running", <<>>, 0) :
                    p \in Pids}
        place == UNION {{StartOracle("none", p, "ok", NetAllOk(n), info, t, pf) :
                           pf \in 1..Len(t), info \in {"Running"}, p \in Pids} :
                        t \in Inventories}
        late == UNION {{StartOracle(f, p, "ok", NetAllOk(n), info, t, 0) :
                           f \in IF t = <<>> THEN {"globalcpu", "save"}
                                 ELSE {"save_threads", "globalcpu", "save"},
                           info \in {"Running"}, p \in Pids} :
                        t \in Inventories}
        good == UNION {{StartOracle("none", p, "ok", net, info, t, 0) :
                           net \in {x \in NetScripts(n) : NetScriptOk(n, x)},
                           info \in InfoRepliesAtBoot, p \in Pids} :
                        t \in Inventories}
    IN early \cup sockfail \cup netfail \cup mid \cup norefresh \cup place \cup late \cup good

ReconnectOracles ==
    {[fail |-> f, info |-> "Running"] :
        f \in {"beginjob", "hostdev", "monitor", "machinename", "cgroup"}}
    \cup {[fail |-> "none", info |-> i] : i \in InfoReplies}
    \cup {[fail |-> "save", info |-> i] : i \in InfoReplies \ {"fail", "Shutdown"}}

NoStopOracle == [busy |-> 0, cgFinal |-> "ok", unlinkXml |-> "ok", unlinkPid |-> "ok"]

(***************************************************************************)
(* The domain object.                                                      *)
(***************************************************************************)
NewDomain(n) ==
    [state |-> "shutoff", reason |-> "unknown", pid |-> 0, id |-> -1,
     monitor |-> FALSE, nlive |-> 0, threads |-> <<>>, procAlive |-> FALSE,
     cgroup |-> FALSE, scope |-> FALSE, subscopes |-> {}, hostdevs |-> FALSE,
     status |-> NoStatus,
     job |-> "none", locked |-> FALSE, refs |-> 1, nwlocks |-> 0, nnets |-> n]

\* the registry as the daemon loads it when it starts: the domain's status
\* record, when there is one, gives its process id, id, state and reason
LoadDomain(v) ==
    [NewDomain(v.nnets) EXCEPT
        !.pid = v.status.pid,
        !.id = v.status.id,
        !.state = IF v.status = NoStatus THEN "shutoff" ELSE v.status.state,
        !.reason = IF v.status = NoStatus THEN "unknown" ELSE v.status.reason,
        !.procAlive = v.procAlive,
        !.scope = v.scope,
        !.subscopes = v.subscopes,
        !.status = v.status]

Ctx(v) == [vm |-> v, log |-> <<>>, ret |-> 0, jump |-> "none", jobStarted |-> FALSE]

NoOp == [op |-> "none", reason |-> "", ret |-> 0]

(***************************************************************************)
(* Thread placement.  A CPU mask is a set of CPU numbers, a NULL bitmap is *)
(* the empty set (a configured bitmap is never empty).  Thread ids: the    *)
(* emulator thread is 1, the I/O thread 2, the thread of vCPU i is 3 + i,  *)
(* and 0 is what a thread id that was never detected holds.                *)
(***************************************************************************)
\* vCPUs of the domain definition (virDomainDefGetVcpusMax)
MaxVcpus == 2

NoMask == {}

HostCpus == {0, 1}

EmulatorTid == 1

IOThreadTid == 2

VcpuTid(i) == 3 + i

PlaceTids == 0..(MaxVcpus + 2)

VcpuIds == 0..(MaxVcpus - 1)

NoSched == [policy |-> "null", priority |-> 0]

\* virCgroupThreadName and the id give the name of a thread's sub-scope
ScopeNames ==
    {<<"emulator", 0>>, <<"iothread", IOThreadTid>>} \cup {<<"vcpu", i>> : i \in VcpuIds}

NoScope == <<"none", 0>>

NoSubScope == [exists |-> FALSE, members |-> {}, cpus |-> NoMask, mems |-> FALSE, bw |-> FALSE]

\* the host as virCHProcessSetupPid sees it: affinity and scheduler of each
\* thread ("untouched": as inherited) and the sub-scopes of the domain's cgroup
PlaceOS(hostBitmap) ==
    [hostBitmap |-> hostBitmap,
     aff |-> [t \in PlaceTids |-> NoMask],
     sched |-> [t \in PlaceTids |-> NoSched],
     scopes |-> [n \in ScopeNames |-> NoSubScope]]

\* vm->def and the private data that placement reads
NoPolicy == [policy |-> "none", priority |-> 0]

NoVcpu == [online |-> FALSE, cpumask |-> NoMask, sched |-> NoPolicy, tid |-> 0]

PlaceDef ==
    [ctrl |-> {}, mode |-> "static", autoCpuset |-> NoMask, cpumask |-> NoMask,
     numaNodes |-> 1, memMode |-> "none",
     period |-> 0, quota |-> 0,
     emulator_period |-> 0, emulator_quota |-> 0,
     iothread_period |-> 0, iothread_quota |-> 0,
     emulatorpin |-> NoMask, emulatorsched |-> NoSched,
     vcpus |-> [i \in VcpuIds |-> NoVcpu]]

NoArgs ==
    [pid |-> 0, nameval |-> "none", id |-> 0, cpumask |-> NoMask,
     period |-> 0, quota |-> 0, sched |-> NoSched]

NoFail == [call |-> 0, step |-> "none"]

\* the placement context: the definition, the host, the monitor's cached
\* thread records, the locals of the running virCHProcessSetupPid
PlaceCtx(d, os, threads, fail) ==
    [op |-> "none",
     d |-> d, os |-> os, os0 |-> os, threads |-> threads, fail |-> fail, calls |-> 0,
     log |-> <<>>, ret |-> 0, jump |-> "none",
     a |-> NoArgs, use_cpumask |-> NoMask, affinity_cpumask |-> NoMask,
     hostcpumap |-> NoMask, mem_mask |-> FALSE, cgroup |-> NoScope, inferred |-> FALSE]

PlaceIdle == PlaceCtx(PlaceDef, PlaceOS(TRUE), <<>>, NoFail)

\* the running call of virCHProcessSetupPid fails at this step
FailsAt(q, step) == q.fail.call = q.calls /\ q.fail.step = step

virCgroupHasController(q, controller) == controller \in q.d.ctrl

(***************************************************************************)
(* virCHProcessGetAllCpuAffinity                                           *)
(***************************************************************************)
virCHProcessGetAllCpuAffinity(q) ==
    IF ~q.os.hostBitmap
    THEN Ret([q EXCEPT !.hostcpumap = NoMask], 0)
    ELSE IF FailsAt(q, "virHostCPUGetOnlineBitmap")
         THEN Ret(Ev([q EXCEPT !.hostcpumap = NoMask],
                     "virHostCPUGetOnlineBitmap", q.a.pid, "fail"), -1)
         ELSE Ret([q EXCEPT !.hostcpumap = HostCpus], 0)

(***************************************************************************)
(* The cgroup collaborator: new-thread-scope, set-cpuset-cpus,             *)
(* set-cpuset-mems, set-cpu-bandwidth, add-thread, remove.                 *)
(***************************************************************************)
virCgroupNewThread(q, name) ==
    Ev([q EXCEPT !.os.scopes[name].exists = TRUE, !.cgroup = name],
       "virCgroupNewThread", name[2], name[1])

chSetupCgroupCpusetCpus(q, mask) ==
    Ev([q EXCEPT !.os.scopes[q.cgroup].cpus = mask], "chSetupCgroupCpusetCpus", q.a.pid, "ok")

virCgroupSetCpusetMems(q) ==
    Ev([q EXCEPT !.os.scopes[q.cgroup].mems = TRUE], "virCgroupSetCpusetMems", q.a.pid, "ok")

chSetupCgroupVcpuBW(q) ==
    Ev([q EXCEPT !.os.scopes[q.cgroup].bw = TRUE], "chSetupCgroupVcpuBW", q.a.pid, "ok")

\* a thread is a member of one sub-scope at a time
virCgroupAddThread(q, pid) ==
    Ev([q EXCEPT !.os.scopes = [n \in ScopeNames |->
                    [@[n] EXCEPT !.members = IF n = q.cgroup THEN @ \cup {pid}
                                              ELSE @ \ {pid}]]],
       "virCgroupAddThread", pid, q.cgroup[1])

virCgroupRemove(q) ==
    Ev([q EXCEPT !.os.scopes[q.cgroup] = NoSubScope], "virCgroupRemove", q.cgroup[2], q.cgroup[1])

virProcessSetAffinity(q, pid, mask) ==
    Ev([q EXCEPT !.os.aff[pid] = mask], "virProcessSetAffinity", pid, "ok")

\* a policy of "none" leaves the thread's scheduler as it is
virProcessSetScheduler(q, pid, sched) ==
    Ev([q EXCEPT !.os.sched[pid] = IF sched.policy = "none" THEN @ ELSE sched],
       "virProcessSetScheduler", pid, "ok")

(***************************************************************************)
(* virCHProcessSetupPid, statement by statement.  q.jump = "cleanup" is a  *)
(* jump to the label with ret still -1.                                    *)
(***************************************************************************)
BandwidthRequested(period, quota) == period # 0 \/ quota # 0

SetupPidEnter(q, a) ==
    Ev([q EXCEPT !.calls = @ + 1, !.a = a, !.jump = "none",
                 !.use_cpumask = NoMask, !.affinity_cpumask = NoMask,
                 !.hostcpumap = NoMask, !.mem_mask = FALSE, !.cgroup = NoScope,
                 !.inferred = FALSE],
       "virCHProcessSetupPid", a.pid, a.nameval)

\* mutant: the controller is not checked before the placement starts
SetupPidCheckBandwidth_Skip(q) == q

SetupPidCheckBandwidth(q) ==
    IF BandwidthRequested(q.a.period, q.a.quota) /\ ~virCgroupHasController(q, "cpu")
    THEN Goto(Ev(q, "virReportError", q.a.pid, "cgroup cpu is required for scheduler tuning"),
              "cleanup")
    ELSE q

\* mutant: the domain-wide mask is preferred to automatic placement
SetupPidInferMask_DomainFirst(q) ==
    IF q.a.cpumask # NoMask
    THEN [q EXCEPT !.use_cpumask = q.a.cpumask, !.inferred = TRUE]
    ELSE IF q.d.cpumask # NoMask
    THEN [q EXCEPT !.use_cpumask = q.d.cpumask, !.inferred = TRUE]
    ELSE IF q.d.mode = "auto"
    THEN [q EXCEPT !.use_cpumask = q.d.autoCpuset, !.inferred = TRUE]
    ELSE LET q1 == virCHProcessGetAllCpuAffinity(q) IN
         IF q1.ret < 0 THEN Goto(q1, "cleanup")
         ELSE [q1 EXCEPT !.affinity_cpumask = q1.hostcpumap, !.inferred = TRUE]

SetupPidInferMask(q) ==
    IF q.a.cpumask # NoMask
    THEN [q EXCEPT !.use_cpumask = q.a.cpumask, !.inferred = TRUE]
    ELSE IF q.d.mode = "auto"
    THEN [q EXCEPT !.use_cpumask = q.d.autoCpuset, !.inferred = TRUE]
    ELSE IF q.d.cpumask # NoMask
    THEN [q EXCEPT !.use_cpumask = q.d.cpumask, !.inferred = TRUE]
    ELSE LET q1 == virCHProcessGetAllCpuAffinity(q) IN
         IF q1.ret < 0 THEN Goto(q1, "cleanup")
         ELSE [q1 EXCEPT !.affinity_cpumask = q1.hostcpumap, !.inferred = TRUE]

SetupPidMemMask(q) ==
    IF q.d.memMode = "strict"
    THEN IF FailsAt(q, "virDomainNumatuneMaybeFormatNodeset")
         THEN Goto(Ev(q, "virDomainNumatuneMaybeFormatNodeset", q.a.pid, "fail"), "cleanup")
         ELSE [q EXCEPT !.mem_mask = TRUE]
    ELSE q

SetupPidNewThread(q) ==
    IF FailsAt(q, "virCgroupNewThread")
    THEN Goto(Ev(q, "virCgroupNewThread", q.a.id, "fail"), "cleanup")
    ELSE virCgroupNewThread(q, <<q.a.nameval, q.a.id>>)

SetupPidCpusetCpus(q) ==
    IF q.use_cpumask # NoMask
    THEN IF FailsAt(q, "chSetupCgroupCpusetCpus")
         THEN Goto(Ev(q, "chSetupCgroupCpusetCpus", q.a.pid, "fail"), "cleanup")
         ELSE chSetupCgroupCpusetCpus(q, q.use_cpumask)
    ELSE q

SetupPidCpusetMems(q) ==
    IF q.mem_mask
    THEN IF FailsAt(q, "virCgroupSetCpusetMems")
         THEN Goto(Ev(q, "virCgroupSetCpusetMems", q.a.pid, "fail"), "cleanup")
         ELSE virCgroupSetCpusetMems(q)
    ELSE q

SetupPidCpuset(q) ==
    IF virCgroupHasController(q, "cpuset")
    THEN Then(SetupPidCpusetCpus(q), LAMBDA x : SetupPidCpusetMems(x))
    ELSE q

SetupPidBandwidth(q) ==
    IF BandwidthRequested(q.a.period, q.a.quota)
    THEN IF FailsAt(q, "chSetupCgroupVcpuBW")
         THEN Goto(Ev(q, "chSetupCgroupVcpuBW", q.a.pid, "fail"), "cleanup")
         ELSE chSetupCgroupVcpuBW(q)
    ELSE q

SetupPidAddThread(q) ==
    IF FailsAt(q, "virCgroupAddThread")
    THEN Goto(Ev(q, "virCgroupAddThread", q.a.pid, "fail"), "cleanup")
    ELSE virCgroupAddThread(q, q.a.pid)

SetupPidCgroup(q) ==
    IF virCgroupHasController(q, "cpu") \/ virCgroupHasController(q, "cpuset")
    THEN LET q1 == SetupPidMemMask(q)
             q2 == Then(q1, LAMBDA x : SetupPidNewThread(x))
             q3 == Then(q2, LAMBDA x : SetupPidCpuset(x))
             q4 == Then(q3, LAMBDA x : SetupPidBandwidth(x))
         IN Then(q4, LAMBDA x : SetupPidAddThread(x))
    ELSE q

\* mutant: only an explicitly inferred mask is applied as affinity
SetupPidAffinity_HostOnly(q) ==
    IF q.affinity_cpumask # NoMask
    THEN IF FailsAt(q, "virProcessSetAffinity")
         THEN Goto(Ev(q, "virProcessSetAffinity", q.a.pid, "fail"), "cleanup")
         ELSE virProcessSetAffinity(q, q.a.pid, q.affinity_cpumask)
    ELSE [q EXCEPT !.affinity_cpumask = q.use_cpumask]

SetupPidAffinity(q) ==
    LET q1 == IF q.affinity_cpumask = NoMask
              THEN [q EXCEPT !.affinity_cpumask = q.use_cpumask]
              ELSE q
    IN IF q1.affinity_cpumask # NoMask
       THEN IF FailsAt(q1, "virProcessSetAffinity")
            THEN Goto(Ev(q1, "virProcessSetAffinity", q1.a.pid, "fail"), "cleanup")
            ELSE virProcessSetAffinity(q1, q1.a.pid, q1.affinity_cpumask)
       ELSE q1

\* mutant: the emulator threads are scheduled like the others
SetupPidScheduler_AnyRole(q) ==
    IF q.a.sched # NoSched
    THEN IF FailsAt(q, "virProcessSetScheduler")
         THEN Goto(Ev(q, "virProcessSetScheduler", q.a.pid, "fail"), "cleanup")
         ELSE virProcessSetScheduler(q, q.a.pid, q.a.sched)
    ELSE q

SetupPidScheduler(q) ==
    IF q.a.sched # NoSched /\ q.a.nameval # "emulator"
    THEN IF FailsAt(q, "virProcessSetScheduler")
         THEN Goto(Ev(q, "virProcessSetScheduler", q.a.pid, "fail"), "cleanup")
         ELSE virProcessSetScheduler(q, q.a.pid, q.a.sched)
    ELSE q

\* mutant: the sub-scope is freed but not removed
SetupPidCleanup_NoRemove(q) ==
    LET failed == q.jump = "cleanup"
    IN Ret(Ev(Goto([q EXCEPT !.cgroup = NoScope], "none"), "virCHProcessSetupPid:return", q.a.pid,
              IF failed THEN "-1" ELSE "0"),
           IF failed THEN -1 ELSE 0)

\* label cleanup
SetupPidCleanup(q) ==
    LET failed == q.jump = "cleanup"
        q1 == IF q.cgroup # NoScope
              THEN [(IF failed THEN virCgroupRemove(q) ELSE q) EXCEPT !.cgroup = NoScope]
              ELSE q
    IN Ret(Ev(Goto(q1, "none"), "virCHProcessSetupPid:return", q.a.pid,
              IF failed THEN "-1" ELSE "0"),
           IF failed THEN -1 ELSE 0)

virCHProcessSetupPid(q, a) ==
    LET q1 == Then(SetupPidEnter(q, a), LAMBDA x : SetupPidCheckBandwidth(x))
        q2 == Then(q1, LAMBDA x : SetupPidInferMask(x))
        q3 == Then(q2, LAMBDA x : SetupPidCgroup(x))
        q4 == Then(q3, LAMBDA x : SetupPidAffinity(x))
        q5 == Then(q4, LAMBDA x : SetupPidScheduler(x))
    IN Bind(q5, LAMBDA x : SetupPidCleanup(x))

(***************************************************************************)
(* The callers of virCHProcessSetupPid.                                    *)
(***************************************************************************)
virCHProcessSetupIOThread(q, iothread_id) ==
    virCHProcessSetupPid(q, [pid |-> iothread_id, nameval |-> "iothread", id |-> iothread_id,
                             cpumask |-> q.d.autoCpuset,
                             period |-> q.d.iothread_period, quota |-> q.d.iothread_quota,
                             sched |-> NoSched])

virCHProcessSetupEmulatorThread(q, tid) ==
    virCHProcessSetupPid(q, [pid |-> tid, nameval |-> "emulator", id |-> 0,
                             cpumask |-> q.d.emulatorpin,
                             period |-> q.d.emulator_period, quota |-> q.d.emulator_quota,
                             sched |-> q.d.emulatorsched])

\* mutant: every vCPU is placed in the sub-scope of vCPU 0
virCHProcessSetupVcpu_SharedScope(q, vcpuid) ==
    virCHProcessSetupPid(q, [pid |-> q.d.vcpus[vcpuid].tid, nameval |-> "vcpu", id |-> 0,
                             cpumask |-> q.d.vcpus[vcpuid].cpumask,
                             period |-> q.d.period, quota |-> q.d.quota,
                             sched |-> q.d.vcpus[vcpuid].sched])

virCHProcessSetupVcpu(q, vcpuid) ==
    virCHProcessSetupPid(q, [pid |-> q.d.vcpus[vcpuid].tid, nameval |-> "vcpu", id |-> vcpuid,
                             cpumask |-> q.d.vcpus[vcpuid].cpumask,
                             period |-> q.d.period, quota |-> q.d.quota,
                             sched |-> q.d.vcpus[vcpuid].sched])

RECURSIVE PlaceEmulatorThreadsFrom(_, _)
PlaceEmulatorThreadsFrom(q, i) ==
    IF i > Len(q.threads) THEN Ret(q, 0)
    ELSE IF q.threads[i].type # "emulator" THEN PlaceEmulatorThreadsFrom(q, i + 1)
    ELSE Bind(virCHProcessSetupEmulatorThread(q, q.threads[i].tid),
              LAMBDA q1 : IF q1.ret < 0 THEN Ret(q1, -1)
                          ELSE PlaceEmulatorThreadsFrom(q1, i + 1))

\* virCHProcessSetupEmulatorThreads on the placement context
PlaceEmulatorThreads(q) == PlaceEmulatorThreadsFrom(q, 1)

\* the I/O threads among the monitor's thread records
virCHMonitorGetIOThreads(q) == SelectSeq(q.threads, LAMBDA t : t.type = "iothread")

RECURSIVE PlaceIOThreadsFrom(_, _, _)
PlaceIOThreadsFrom(q, iothreads, i) ==
    IF i > Len(iothreads) THEN Ret(q, 0)
    ELSE Bind(virCHProcessSetupIOThread(q, iothreads[i].tid),
              LAMBDA q1 : IF q1.ret < 0 THEN Ret(q1, -1)
                          ELSE PlaceIOThreadsFrom(q1, iothreads, i + 1))

\* virCHProcessSetupIOThreads on the placement context
PlaceIOThreads(q) == PlaceIOThreadsFrom(q, virCHMonitorGetIOThreads(q), 1)

RECURSIVE SetupVcpuPidsFrom(_, _)
SetupVcpuPidsFrom(q, i) ==
    IF i > Len(q.threads) THEN q
    ELSE IF q.threads[i].type # "vcpu" THEN SetupVcpuPidsFrom(q, i + 1)
    ELSE SetupVcpuPidsFrom([q EXCEPT !.d.vcpus[q.threads[i].cpuid].tid = q.threads[i].tid], i + 1)

virCHProcessSetupVcpuPids(q) == SetupVcpuPidsFrom(q, 1)

virCHDomainHasVcpuPids(q) == \E i \in VcpuIds : q.d.vcpus[i].tid > 0

virBitmapEqual(b1, b2) == b1 = b2

\* an online vCPU whose own mask is not the mask of the domain
VcpuHasCustomAffinity(d, i) ==
    /\ d.vcpus[i].online
    /\ d.vcpus[i].cpumask # NoMask
    /\ ~virBitmapEqual(d.cpumask, d.vcpus[i].cpumask)

\* mutant: custom masks are let through although no thread can be pinned
PlaceVcpusWithoutPids_Accept(q) == Ret(q, 0)

PlaceVcpusWithoutPids(q) ==
    IF \E i \in VcpuIds : VcpuHasCustomAffinity(q.d, i)
    THEN Ret(Ev(q, "virReportError", 0, "cpu affinity is not supported"), -1)
    ELSE Ret(q, 0)

RECURSIVE PlaceVcpusFrom(_, _)
PlaceVcpusFrom(q, i) ==
    IF i >= MaxVcpus THEN Ret(q, 0)
    ELSE IF ~q.d.vcpus[i].online THEN PlaceVcpusFrom(q, i + 1)
    ELSE Bind(virCHProcessSetupVcpu(q, i),
              LAMBDA q1 : IF q1.ret < 0 THEN Ret(q1, -1) ELSE PlaceVcpusFrom(q1, i + 1))

\* virCHProcessSetupVcpus on the placement context
PlaceVcpus(q) ==
    LET q0 == Ev(q, "virCHProcessSetupVcpus", 0, "") IN
    IF BandwidthRequested(q.d.period, q.d.quota) /\ ~virCgroupHasController(q, "cpu")
    THEN Ret(Ev(q0, "virReportError", 0, "cgroup cpu is required for scheduler tuning"), -1)
    ELSE Bind(virCHProcessSetupVcpuPids(q0),
              LAMBDA q1 : IF ~virCHDomainHasVcpuPids(q1)
                          THEN PlaceVcpusWithoutPids(q1)
                          ELSE PlaceVcpusFrom(q1, 0))

\* virCHProcessSetupThreads on the placement context: o.refresh is the
\* answer to the thread query, o.save the outcome of the save
\* mutant: the record is persisted whether or not the placements succeeded
PlaceThreads_SaveAlways(q, o) ==
    LET q0 == IF o.refresh
              THEN Ret(Ev([q EXCEPT !.threads = o.threads], "virCHMonitorRefreshThreadInfo",
                          Len(o.threads), "ok"), Len(o.threads))
              ELSE Ret(Ev([q EXCEPT !.threads = <<>>], "virCHMonitorRefreshThreadInfo", 0, "fail"), -1)
    IN IF q0.ret <= 0 THEN q0
       ELSE LET q1 == Bind(q0, LAMBDA x : PlaceEmulatorThreads(x))
                q2 == Bind(q1, LAMBDA x : IF x.ret = 0 THEN PlaceIOThreads(x) ELSE x)
                q3 == Bind(q2, LAMBDA x : IF x.ret = 0 THEN PlaceVcpus(x) ELSE x)
            IN Bind(q3, LAMBDA x :
                   IF o.save THEN Ret(Ev(x, "virDomainObjSave", 0, "ok"), x.ret)
                   ELSE Ret(Ev(x, "virDomainObjSave", 0, "fail"), -1))

PlaceThreads(q, o) ==
    LET q0 == IF o.refresh
              THEN Ret(Ev([q EXCEPT !.threads = o.threads], "virCHMonitorRefreshThreadInfo",
                          Len(o.threads), "ok"), Len(o.threads))
              ELSE Ret(Ev([q EXCEPT !.threads = <<>>], "virCHMonitorRefreshThreadInfo", 0, "fail"), -1)
    IN IF q0.ret <= 0 THEN q0
       ELSE LET q1 == Bind(q0, LAMBDA x : PlaceEmulatorThreads(x))
                q2 == Bind(q1, LAMBDA x : IF x.ret = 0 THEN PlaceIOThreads(x) ELSE x)
                q3 == Bind(q2, LAMBDA x : IF x.ret = 0 THEN PlaceVcpus(x) ELSE x)
            IN Bind(q3, LAMBDA x :
                   IF x.ret = 0
                   THEN IF o.save THEN Ret(Ev(x, "virDomainObjSave", 0, "ok"), 0)
                        ELSE Ret(Ev(x, "virDomainObjSave", 0, "fail"), -1)
                   ELSE x)

(***************************************************************************)
(* Actions.  An operation runs to completion in one step and leaves its    *)
(* log and result in log and last; Return hands the result to the caller.  *)
(***************************************************************************)
Idle == last.op = "none"

\* no registry is being enumerated
NoRegistry ==
    [objs |-> <<>>, objs0 |-> <<>>, pos |-> 0, ret |-> 0, helper |-> <<>>,
     tasks |-> {}, ran |-> {}]

Finish(c, op, reason) ==
    /\ vm' = c.vm
    /\ log' = c.log
    /\ last' = [op |-> op, reason |-> reason, ret |-> c.ret]
    /\ pre' = vm

Init ==
    /\ vm = NewDomain(NumNets)
    /\ log = <<>>
    /\ last = NoOp
    /\ pre = vm
    /\ prevOp = "none"
    /\ task = "none"
    /\ enumerated = FALSE
    /\ pl = PlaceIdle
    /\ reg = NoRegistry

Start ==
    /\ Idle /\ enumerated /\ task = "none"
    /\ vm.state = "shutoff"
    /\ \E o \in StartOracles(vm) :
         LET b == StartBody(Ctx(vm), "booted", o) IN
         \E so \in IF b.jump = "cleanup" THEN NestedStopOracles(b.vm) ELSE {NoStopOracle} :
            Finish(StartFinish(b, so), "Start", "booted")
    /\ UNCHANGED <<prevOp, task, enumerated, pl, reg>>

Stop ==
    /\ Idle /\ enumerated /\ task = "none"
    /\ \E reason \in ApiStopReasons : \E so \in StopOracles(vm) :
         Finish(virCHProcessStop(Ctx(vm), reason, so), "Stop", reason)
    /\ UNCHANGED <<prevOp, task, enumerated, pl, reg>>

ReconnectHelper ==
    /\ Idle /\ ~enumerated
    /\ \E spawn \in {"ok", "fail"} :
       \E so \in IF spawn = "fail" /\ ~HelperSkips(vm) THEN NestedStopOracles(vm) ELSE {NoStopOracle} :
         LET c == chProcessReconnectHelper(Ctx(vm), spawn, so) IN
         /\ Finish(c, "Helper", "")
         /\ task' = IF HasRes(c.log, "virThreadCreateFull", "ok") THEN "spawned" ELSE "none"
    /\ enumerated' = TRUE
    /\ UNCHANGED <<prevOp, pl, reg>>

ReconnectThread ==
    /\ Idle /\ task = "spawned"
    /\ \E o \in ReconnectOracles :
         LET b == ReconnectBody(Ctx(vm), o) IN
         \E so \in IF b.jump \in {"error", "finish"} THEN NestedStopOracles(b.vm) ELSE {NoStopOracle} :
            Finish(ReconnectFinish(b, so), "Reconnect", "")
    /\ task' = "none"
    /\ UNCHANGED <<prevOp, enumerated, pl, reg>>

Return ==
    /\ ~Idle
    /\ last' = NoOp
    /\ log' = <<>>
    /\ pre' = vm
    /\ prevOp' = IF last.op = "Stop" THEN last.reason ELSE "none"
    /\ UNCHANGED <<vm, task, enumerated, pl, reg>>

DaemonRestart ==
    /\ Idle /\ enumerated /\ task = "none"
    /\ vm' = LoadDomain(vm)
    /\ pre' = vm'
    /\ prevOp' = "none"
    /\ enumerated' = FALSE
    /\ UNCHANGED <<log, last, task, pl, reg>>

\* the guest of a running domain begins to shut down: the driver marks the
\* domain paused with reason "shutting down" and persists its record
BeginShutdown ==
    /\ Idle /\ enumerated /\ task = "none"
    /\ vm.state = "running" /\ vm.monitor
    /\ vm' = [vm EXCEPT !.state = "paused", !.reason = "shutting down",
                        !.status = [pid |-> vm.pid, id |-> vm.id,
                                    state |-> "paused", reason |-> "shutting down"]]
    /\ pre' = vm'
    /\ UNCHANGED <<log, last, prevOp, task, enumerated, pl, reg>>

Next ==
    \/ Start
    \/ Stop
    \/ ReconnectHelper
    \/ ReconnectThread
    \/ Return
    \/ DaemonRestart
    \/ BeginShutdown

Spec == Init /\ [][Next]_vars

(***************************************************************************)
(* Thread placement on its own: each action draws a domain definition, a   *)
(* host and the arguments, runs one placement operation from a host where  *)
(* nothing was placed yet, and leaves the context it returned in pl.       *)
(***************************************************************************)
PlaceSteps ==
    {"virHostCPUGetOnlineBitmap", "virDomainNumatuneMaybeFormatNodeset",
     "virCgroupNewThread", "chSetupCgroupCpusetCpus", "virCgroupSetCpusetMems",
     "chSetupCgroupVcpuBW", "virCgroupAddThread", "virProcessSetAffinity",
     "virProcessSetScheduler"}

\* no step fails, or one of these steps of one of the first n calls does
PlaceFails(n, steps) == {NoFail} \cup [call : 1..n, step : steps]

\* the steps drawn to fail where several threads are placed in a row
LoopFailSteps == {"virCgroupAddThread", "virProcessSetAffinity"}

\* numaNodes and memMode of the definitions drawn
NumaChoices == {<<1, "strict">>, <<2, "strict">>, <<1, "none">>}

\* placement mode and automatically computed mask of the definitions drawn
AutoChoices == {<<"static", NoMask>>, <<"auto", NoMask>>, <<"auto", {1}>>}

\* the run reached the step that was to fail
FailConsumed(q) == q.fail = NoFail \/ HasRes(q.log, q.fail.step, "fail")

Controllers == SUBSET {"cpu", "cpuset"}

\* <<period, quota>>
BandwidthChoices == {<<0, 0>>, <<100000, 0>>, <<0, 50000>>}

SchedChoices == {NoSched, NoPolicy, [policy |-> "fifo", priority |-> 1]}

RoleTid(role) ==
    IF role = "emulator" THEN EmulatorTid
    ELSE IF role = "iothread" THEN IOThreadTid
    ELSE VcpuTid(0)

PlaceThreadDefs ==
    {[PlaceDef EXCEPT !.ctrl = c, !.mode = au[1], !.autoCpuset = au[2], !.cpumask = dm,
                      !.numaNodes = n[1], !.memMode = n[2]] :
        c \in Controllers, au \in AutoChoices, dm \in {NoMask, {0, 1}}, n \in NumaChoices}

PlaceThreadArgs ==
    {[pid |-> RoleTid(r), nameval |-> r, id |-> IF r = "iothread" THEN RoleTid(r) ELSE 0,
      cpumask |-> m, period |-> bw[1], quota |-> bw[2], sched |-> s] :
        r \in ThreadKinds, m \in {NoMask, {0}}, bw \in BandwidthChoices,
        s \in SchedChoices \ {NoPolicy}}

VcpuChoices(tids) ==
    {[online |-> on, cpumask |-> m, sched |-> NoPolicy, tid |-> t] :
        on \in BOOLEAN, m \in {NoMask, {0}, {0, 1}}, t \in tids}

\* the thread records of the vCPUs in rep, in the order of their ids
RECURSIVE VcpuRecordsFrom(_, _)
VcpuRecordsFrom(rep, i) ==
    IF i >= MaxVcpus THEN <<>>
    ELSE (IF i \in rep THEN <<[type |-> "vcpu", tid |-> VcpuTid(i), cpuid |-> i]>> ELSE <<>>)
         \o VcpuRecordsFrom(rep, i + 1)

ThreadRecords(emu, io, rep) ==
    (IF emu THEN <<[type |-> "emulator", tid |-> EmulatorTid, cpuid |-> 0]>> ELSE <<>>)
    \o (IF io THEN <<[type |-> "iothread", tid |-> IOThreadTid, cpuid |-> 0]>> ELSE <<>>)
    \o VcpuRecordsFrom(rep, 0)

OnlineVcpus(d) == {i \in VcpuIds : d.vcpus[i].online}

MainUnchanged == UNCHANGED <<vm, log, last, pre, prevOp, task, enumerated, reg>>

PlaceThread ==
    /\ pl.op = "none"
    /\ \E d \in PlaceThreadDefs, hb \in BOOLEAN, a \in PlaceThreadArgs, f \in PlaceFails(1, PlaceSteps) :
         \E q \in {virCHProcessSetupPid(PlaceCtx(d, PlaceOS(hb), <<>>, f), a)} :
            /\ FailConsumed(q)
            /\ pl' = [q EXCEPT !.op = "PlaceThread"]
    /\ MainUnchanged

SetupVcpu ==
    /\ pl.op = "none"
    /\ \E c \in Controllers, bw \in BandwidthChoices, dm \in {NoMask, {0, 1}},
          m \in {NoMask, {0}}, s \in SchedChoices \ {NoSched}, f \in PlaceFails(1, PlaceSteps) :
         LET d == [PlaceDef EXCEPT !.ctrl = c, !.period = bw[1], !.quota = bw[2],
                                   !.cpumask = dm,
                                   !.vcpus[0] = [online |-> TRUE, cpumask |-> m, sched |-> s,
                                                 tid |-> VcpuTid(0)]]
         IN \E q \in {virCHProcessSetupVcpu(PlaceCtx(d, PlaceOS(TRUE), <<>>, f), 0)} :
               /\ FailConsumed(q)
               /\ pl' = [q EXCEPT !.op = "SetupVcpu"]
    /\ MainUnchanged

SetupVcpus ==
    /\ pl.op = "none"
    /\ \E c \in Controllers, bw \in {<<0, 0>>, <<100000, 0>>}, dm \in {NoMask, {0, 1}},
          vs \in [VcpuIds -> VcpuChoices({0})], f \in PlaceFails(MaxVcpus, LoopFailSteps) :
         LET d == [PlaceDef EXCEPT !.ctrl = c, !.period = bw[1], !.quota = bw[2],
                                   !.cpumask = dm, !.vcpus = vs]
         IN \E rep \in SUBSET OnlineVcpus(d) :
              \E q \in {PlaceVcpus(PlaceCtx(d, PlaceOS(TRUE),
                                             ThreadRecords(FALSE, FALSE, rep), f))} :
                 /\ FailConsumed(q)
                 /\ pl' = [q EXCEPT !.op = "SetupVcpus"]
    /\ MainUnchanged

SetupThreads ==
    /\ pl.op = "none"
    /\ \E c \in Controllers, au \in AutoChoices, bw \in {<<0, 0>>, <<100000, 0>>},
          dm \in {NoMask, {0, 1}}, on \in BOOLEAN, vm0 \in {NoMask, {0}},
          f \in PlaceFails(MaxVcpus + 2, LoopFailSteps) :
         LET d == [PlaceDef EXCEPT !.ctrl = c, !.mode = au[1], !.autoCpuset = au[2], !.cpumask = dm,
                      !.period = bw[1], !.quota = bw[2],
                      !.vcpus = [i \in VcpuIds |->
                                   [online |-> (i = 0 \/ on),
                                    cpumask |-> IF i = 0 THEN vm0 ELSE NoMask,
                                    sched |-> NoPolicy, tid |-> 0]]]
         IN \E emu \in BOOLEAN, io \in BOOLEAN, rep \in SUBSET OnlineVcpus(d),
               refresh \in BOOLEAN, save \in BOOLEAN :
              \E q \in {PlaceThreads(PlaceCtx(d, PlaceOS(TRUE), <<>>, f),
                                      [refresh |-> refresh, save |-> save,
                                       threads |-> ThreadRecords(emu, io, rep)])} :
                 /\ FailConsumed(q)
                 /\ (~refresh => ~emu /\ ~io /\ rep = {} /\ save)
                 /\ (~save => HasRes(q.log, "virDomainObjSave", "fail"))
                 /\ pl' = [q EXCEPT !.op = "SetupThreads"]
    /\ MainUnchanged

NextPlace ==
    \/ PlaceThread
    \/ SetupVcpu
    \/ SetupVcpus
    \/ SetupThreads

SpecPlace == Init /\ [][NextPlace]_vars

(***************************************************************************)
(* The network device handoff on its own, for a domain with 0..MaxNets     *)
(* network devices: pre is the domain before the call, log and last the    *)
(* calls and the result of chProcessAddNetworkDevices.                     *)
(***************************************************************************)
MaxNets == 4

AddNetworkDevices ==
    /\ Idle
    /\ \E n \in 0..MaxNets, sk \in SockOutcomes : \E net \in NetScripts(n) :
         \E c \in {chProcessAddNetworkDevices(Ctx(NewDomain(n)), [sock |-> sk, net |-> net])} :
            /\ vm' = c.vm
            /\ log' = c.log
            /\ last' = [op |-> "AddNetworkDevices", reason |-> "", ret |-> c.ret]
            /\ pre' = NewDomain(n)
    /\ UNCHANGED <<prevOp, task, enumerated, pl, reg>>

NextNet == AddNetworkDevices

SpecNet == Init /\ [][NextNet]_vars

(***************************************************************************)
(* chProcessReconnectAll over a registry of NumDomains domains.  The       *)
(* enumeration visits the domains in turn and calls the helper on each;    *)
(* the reconnection threads it created run concurrently with the rest of   *)
(* the enumeration.  reg holds the domains (objs), the domains as the      *)
(* daemon loaded them (objs0), the next domain to visit (pos), what the    *)
(* helper returned and logged for each domain visited (helper), the result *)
(* of the enumeration (ret), and the domains whose thread was created and  *)
(* has not run yet (tasks) or has run (ran).                               *)
(***************************************************************************)
NumDomains == 3

DomIds == 1..NumDomains

\* a domain the daemon left running with process id p, as loaded on restart
RecordedRunning(p) ==
    LoadDomain([NewDomain(0) EXCEPT
        !.procAlive = TRUE, !.scope = TRUE,
        !.status = [pid |-> p, id |-> p, state |-> "running", reason |-> "booted"]])

Registries ==
    {[d \in DomIds |-> IF d \in R THEN RecordedRunning(d) ELSE LoadDomain(NewDomain(0))] :
        R \in SUBSET DomIds}

NoHelper == [ret |-> 0, log |-> <<>>]

InitAll ==
    /\ vm = NewDomain(NumNets)
    /\ log = <<>>
    /\ last = NoOp
    /\ pre = vm
    /\ prevOp = "none"
    /\ task = "none"
    /\ enumerated = FALSE
    /\ pl = PlaceIdle
    /\ \E objs \in Registries :
          reg = [objs |-> objs, objs0 |-> objs, pos |-> 1, ret |-> 0,
                 helper |-> [d \in DomIds |-> NoHelper], tasks |-> {}, ran |-> {}]

AllUnchanged == UNCHANGED <<vm, log, last, pre, prevOp, task, enumerated, pl>>

\* virDomainObjListForEach: the callback is called on the next domain; a
\* callback that fails makes the enumeration return -1, and the enumeration
\* goes on with the domains that follow
ReconnectAllVisit ==
    /\ reg.pos \in DomIds
    /\ \E spawn \in {"ok", "fail"} :
         \E c \in {chProcessReconnectHelper(Ctx(reg.objs[reg.pos]), spawn, NoStopOracle)} :
            /\ (HelperSkips(reg.objs[reg.pos]) => spawn = "ok")
            /\ reg' = [reg EXCEPT
                         !.objs[reg.pos] = c.vm,
                         !.helper[reg.pos] = [ret |-> c.ret, log |-> c.log],
                         !.ret = IF c.ret < 0 THEN -1 ELSE @,
                         !.tasks = IF HasRes(c.log, "virThreadCreateFull", "ok")
                                   THEN @ \cup {reg.pos} ELSE @,
                         !.pos = @ + 1]
    /\ AllUnchanged

\* the reconnection thread of one domain
RecoveryTask ==
    /\ \E d \in reg.tasks : \E o \in ReconnectOracles :
         \E c \in {virCHProcessReconnect(Ctx(reg.objs[d]), o, NoStopOracle)} :
            reg' = [reg EXCEPT !.objs[d] = c.vm, !.tasks = @ \ {d}, !.ran = @ \cup {d}]
    /\ AllUnchanged

NextAll ==
    \/ ReconnectAllVisit
    \/ RecoveryTask

SpecAll == InitAll /\ [][NextAll]_vars

(***************************************************************************)
(* The reconnection threads step by step, for the domains whose thread the *)
(* enumeration created: the body of virCHProcessReconnect up to its jump,  *)
(* then, when the domain is stopped, one step for each attempt of Stop's   *)
(* retry loop and for each sleep, then the cleanup label.  reg holds the   *)
(* domains (objs) and, for each thread, where it is (pc), the retries      *)
(* made, whether the job was begun and the reason given to Stop.  Every    *)
(* removal attempt may answer busy.  The threads are scheduled fairly.     *)
(***************************************************************************)
NumTasks == 2

TaskIds == 1..NumTasks

\* the domain as the helper hands it to its thread
HandedOver(p) == chProcessReconnectHelper(Ctx(RecordedRunning(p)), "ok", NoStopOracle).vm

NoRun == [pc |-> "spawned", retries |-> 0, jobStarted |-> FALSE, reason |-> ""]

InitLive ==
    /\ vm = NewDomain(NumNets)
    /\ log = <<>>
    /\ last = NoOp
    /\ pre = vm
    /\ prevOp = "none"
    /\ task = "none"
    /\ enumerated = FALSE
    /\ pl = PlaceIdle
    /\ reg = [objs |-> [d \in TaskIds |-> HandedOver(d)], run |-> [d \in TaskIds |-> NoRun]]

RunCtx(d) == [Ctx(reg.objs[d]) EXCEPT !.jobStarted = reg.run[d].jobStarted]

\* the reason virCHProcessReconnect gives to Stop, "" when it does not stop
ReconnectStopReason(b) ==
    IF b.jump = "error" /\ virDomainObjIsActive(b) THEN "unknown"
    ELSE IF b.jump = "finish" THEN "daemon"
    ELSE ""

\* the thread runs from its entry to the retry label of Stop or, when the
\* domain is not stopped, to the cleanup label
TaskBody(d) ==
    /\ reg.run[d].pc = "spawned"
    /\ \E o \in ReconnectOracles :
         \E b \in {ReconnectBody(Ctx(reg.objs[d]), o)} :
            LET reason == ReconnectStopReason(b)
                c == IF reason # "" THEN StopBegin(b, reason) ELSE b
            IN reg' = [reg EXCEPT
                         !.objs[d] = c.vm,
                         !.run[d] = [pc |-> IF reason # "" THEN "retry" ELSE "cleanup",
                                     retries |-> 0, jobStarted |-> b.jobStarted,
                                     reason |-> reason]]
    /\ AllUnchanged

\* one attempt of the retry loop: r is what the removal answers
TaskStopAttempt(d) ==
    /\ reg.run[d].pc = "retry"
    /\ \E r \in IF reg.objs[d].cgroup THEN CgFinals ELSE {"ok"} :
       \E ux \in IF reg.objs[d].status = NoStatus THEN {"ok"} ELSE {"ok", "EACCES"} :
       \E up \in {"ok", "EACCES"} :
         LET retries == reg.run[d].retries
             o == [busy |-> IF r = "EBUSY" THEN retries + 1 ELSE 0, cgFinal |-> r,
                   unlinkXml |-> ux, unlinkPid |-> up]
             c1 == chRemoveCgroup(RunCtx(d), retries + 1, o)
         IN IF c1.ret < 0 /\ RetryAgain(r, retries)
            THEN /\ ux = "ok" /\ up = "ok"
                 /\ reg' = [reg EXCEPT
                              !.objs[d] = c1.vm,
                              !.run[d].pc = "sleep",
                              !.run[d].retries = IF retries < MaxBusy THEN retries + 1 ELSE retries]
            ELSE reg' = [reg EXCEPT
                           !.objs[d] = StopEnd(c1, reg.run[d].reason, o).vm,
                           !.run[d].pc = "cleanup"]
    /\ AllUnchanged

\* g_usleep, then back to the label retry
TaskSleep(d) ==
    /\ reg.run[d].pc = "sleep"
    /\ reg' = [reg EXCEPT !.run[d].pc = "retry"]
    /\ AllUnchanged

\* the cleanup label of virCHProcessReconnect
TaskCleanup(d) ==
    /\ reg.run[d].pc = "cleanup"
    /\ reg' = [reg EXCEPT !.objs[d] = ReconnectCleanup(RunCtx(d)).vm, !.run[d].pc = "done"]
    /\ AllUnchanged

TaskStep(d) == TaskBody(d) \/ TaskStopAttempt(d) \/ TaskSleep(d) \/ TaskCleanup(d)

NextLive ==
    \/ \E d \in TaskIds : TaskBody(d)
    \/ \E d \in TaskIds : TaskStopAttempt(d)
    \/ \E d \in TaskIds : TaskSleep(d)
    \/ \E d \in TaskIds : TaskCleanup(d)

SpecLive == InitLive /\ [][NextLive]_vars /\ \A d \in TaskIds : WF_vars(TaskStep(d))

(***************************************************************************)
(* The version check of ch_conf.c.  The hypervisor's answer to --version   *)
(* is the outcome of the command ("cmdfail"), a text that does not parse   *)
(* ("noparse") or a version with its three numbers.  reg holds the version *)
(* stored in the driver, the version stored before the last call, whether  *)
(* the last call asked the hypervisor, its answer, and what it returned.   *)
(***************************************************************************)
\* extraction calls made to the hypervisor in one run of the daemon
MaxQueries == 3

\* the numbers drawn keep the encoded version below 2^31, where the
\* unsigned int product, the unsigned long version and the int stored in
\* the driver hold the same value
VersionMajors == {0, 1, 32}

VersionMinors == {0, 8, 9, 15}

VersionMicros == {0, 999, 1000, 9000}

VersionAnswers ==
    {[kind |-> k, major |-> 0, minor |-> 0, micro |-> 0] : k \in {"cmdfail", "noparse"}}
    \cup [kind : {"version"}, major : VersionMajors, minor : VersionMinors, micro : VersionMicros]

\* virCHVersionString: -1, or the encoded version
virCHVersionString(a) ==
    IF a.kind = "noparse" THEN -1
    ELSE 1000000 * a.major + 1000 * a.minor + a.micro

VersionTooOld(version) ==
    (version \div 1000000) < 1 /\ ((version % 1000000) \div 1000) < 9

\* chExtractVersionInfo: <<ret, *retversion>>
chExtractVersionInfo(a) ==
    IF a.kind = "cmdfail" THEN <<-1, 0>>
    ELSE LET version == virCHVersionString(a) IN
         IF version < 0 THEN <<-1, 0>>
         ELSE IF VersionTooOld(version) THEN <<-1, 0>>
         ELSE <<0, version>>

\* chExtractVersion: [ret, version, queried]
chExtractVersion(stored, a) ==
    IF stored > 0 THEN [ret |-> 0, version |-> stored, queried |-> FALSE]
    ELSE LET r == chExtractVersionInfo(a) IN
         [ret |-> r[1], version |-> r[2], queried |-> TRUE]

NoAnswer == [kind |-> "none", major |-> 0, minor |-> 0, micro |-> 0]

InitVersion ==
    /\ vm = NewDomain(NumNets)
    /\ log = <<>>
    /\ last = NoOp
    /\ pre = vm
    /\ prevOp = "none"
    /\ task = "none"
    /\ enumerated = FALSE
    /\ pl = PlaceIdle
    /\ reg = [version |-> 0, before |-> 0, queries |-> 0, queried |-> FALSE,
              answer |-> NoAnswer, ret |-> 0, op |-> "none"]

ExtractVersion ==
    /\ reg.queries < MaxQueries
    /\ \E a \in VersionAnswers :
         LET r == chExtractVersion(reg.version, a) IN
         reg' = [version |-> r.version, before |-> reg.version,
                 queries |-> IF r.queried THEN reg.queries + 1 ELSE reg.queries,
                 queried |-> r.queried,
                 answer |-> IF r.queried THEN a ELSE NoAnswer,
                 ret |-> r.ret, op |-> "ExtractVersion"]
    /\ AllUnchanged

NextVersion == ExtractVersion

SpecVersion == InitVersion /\ [][NextVersion]_vars

(***************************************************************************)
(* Properties.  After an operation, and until Return, log holds its calls, *)
(* last its name, argument and result, pre the domain as it was before.    *)
(***************************************************************************)
StartReturned == last.op = "Start"

StopReturned == last.op = "Stop"

ReconnectReturned == last.op = "Reconnect"

StoppedAs(v, reason) == v.state = "shutoff" /\ v.reason = reason /\ ~v.monitor

\* C1: whichever step of Start fails, Start returns failure only after a full
\* Stop has run: the domain is Shutoff with reason "failed" and has no
\* Monitor Connection.
C1_StartFailureRunsStop ==
    (StartReturned /\ last.ret # 0)
        => (Has(log, "virCHProcessStop") /\ StoppedAs(vm, "failed"))

\* the call of log entry i was made before the boot command was issued
BeforeBoot(l, i) == i < First(l, "virCHMonitorBootVM")

DeviceAccepted(l, dev) ==
    \E i, j \in DOMAIN l :
        /\ i < j /\ BeforeBoot(l, j)
        /\ l[i] = <<"virSocketSendMsgWithFD", dev, "ok">>
        /\ l[j][1] = "virSocketRecvHttpResponse" /\ l[j][2] = dev
        /\ l[j][3] \in {"200", "204"}

\* C2: a Start that succeeds has issued the boot command, and whenever Start
\* issues the boot command the add-network request of every configured device
\* has been sent and answered with a success status before it.
C2_NetworkHandoffBeforeBoot ==
    StartReturned =>
        /\ (last.ret = 0 => Has(log, "virCHMonitorBootVM"))
        /\ (Has(log, "virCHMonitorBootVM") =>
                \A dev \in 1..vm.nnets : DeviceAccepted(log, dev))

C2_Witness ==
    /\ StartReturned /\ last.ret = 0 /\ vm.nnets >= 1
    /\ HasRes(log, "virSocketRecvHttpResponse", "204")

\* C3: Stop returns success and leaves the domain Shutoff with exactly the
\* reason supplied, whatever the domain's state was and whichever cleanup
\* sub-steps failed.
C3_StopNeverFails ==
    StopReturned =>
        /\ last.ret = 0
        /\ vm.state = "shutoff"
        /\ vm.reason = last.reason

C3_Witness ==
    /\ StopReturned /\ pre.state = "running"
    /\ HasRes(log, "VIR_WARN", "cgroup")
    /\ HasRes(log, "VIR_WARN", "xml")
    /\ HasRes(log, "VIR_WARN", "pid")

\* the second of two Stop calls in a row with the same reason has returned
SecondStopReturned == StopReturned /\ prevOp = last.reason

\* C4: the second of two Stop calls in a row with the same reason returns
\* success, closes no Monitor Connection and leaves the domain as the first
\* call left it: Shutoff with that reason, no Monitor Connection, no process
\* id, no id.
C4_StopIdempotent ==
    SecondStopReturned =>
        /\ last.ret = 0
        /\ ~Has(log, "virCHMonitorClose")
        /\ StoppedAs(vm, last.reason) /\ StoppedAs(pre, last.reason)
        /\ vm.pid = pre.pid /\ vm.pid \notin Pids
        /\ vm.id = pre.id /\ vm.id = -1
        /\ vm.nlive = pre.nlive

C4_Witness == SecondStopReturned /\ Has(log, "chRemoveCgroup")

ReportedShutdown == ReconnectReturned /\ HasRes(log, "virCHMonitorGetInfo", "Shutdown")

\* C5: when the reconnection thread reopens the monitor and the state query
\* reports "Shutdown", the thread runs Stop: the domain ends Shutoff with
\* reason "daemon" and is not Running.
C5_ReconnectFinishesShutdown ==
    ReportedShutdown =>
        /\ Has(log, "virCHProcessStop")
        /\ StoppedAs(vm, "daemon")
        /\ vm.state # "running"

C5_Witness == ReportedShutdown /\ pre.state = "running"

ReconnectFailed ==
    /\ ReconnectReturned
    /\ \/ HasRes(log, "virCHDomainObjBeginJob", "fail")
       \/ HasRes(log, "chHostdevUpdateActiveDomainDevices", "fail")
       \/ HasRes(log, "virCHMonitorOpen", "fail")
       \/ HasRes(log, "virCHDomainGetMachineName", "fail")
       \/ HasRes(log, "chConnectCgroup", "fail")
       \/ HasRes(log, "virCHMonitorGetInfo", "fail")
       \/ HasRes(log, "virDomainObjSave", "fail")

\* C6: when a step of the reconnection thread fails (begin job, host-device
\* reattachment, monitor reopen, machine name, cgroup, state query, persist),
\* the domain is forcibly stopped: Shutoff with reason "unknown", no Monitor
\* Connection.
C6_ReconnectFailureStops ==
    ReconnectFailed => (Has(log, "virCHProcessStop") /\ StoppedAs(vm, "unknown"))

C6_Witness ==
    /\ ReconnectReturned /\ pre.state = "running"
    /\ HasRes(log, "virDomainObjSave", "fail")

\* C7: when the reconnection thread finishes without a Monitor Connection
\* (it did not resume supervision), the hypervisor process is not running.
C7_NoUnsupervisedProcess ==
    (ReconnectReturned /\ ~vm.monitor) => ~vm.procAlive

LastRefresh(l) ==
    CHOOSE i \in DOMAIN l :
        /\ l[i][1] = "virCHMonitorRefreshThreadInfo"
        /\ \A j \in DOMAIN l : l[j][1] = "virCHMonitorRefreshThreadInfo" => j <= i

\* C8: after a Start that succeeds the domain is Running, has exactly one
\* live Monitor Connection, and its thread inventory is non-empty exactly
\* when the hypervisor's last answer reported a nonzero thread count.
C8_StartSuccessState ==
    (StartReturned /\ last.ret = 0) =>
        /\ vm.state = "running"
        /\ vm.monitor /\ vm.nlive = 1
        /\ (vm.threads # <<>>) <=> (log[LastRefresh(log)][2] > 0)

C8_Witness ==
    /\ StartReturned /\ last.ret = 0 /\ vm.threads # <<>>
    /\ pre.monitor

\* the calls of the reconnection thread that change the domain
MutatingCalls ==
    {"chHostdevUpdateActiveDomainDevices", "virCHMonitorOpen", "chConnectCgroup",
     "virDomainObjSetState", "virDomainObjSave", "virCHProcessStop",
     "virCHMonitorClose", "chRemoveCgroup", "virCHDomainRemoveInactive"}

JobHeldAt(l, i) ==
    \E j \in 1..(i-1) :
        /\ l[j] = <<"virCHDomainObjBeginJob", 0, "ok">>
        /\ \A k \in (j+1)..(i-1) : l[k][1] # "virCHDomainObjEndJob"

\* C9 as stated: every mutating call of the reconnection thread, Stop
\* included, is made while the thread holds the domain's job.
C9_AllMutationsUnderJob ==
    ReconnectReturned =>
        \A i \in DOMAIN log : log[i][1] \in MutatingCalls => JobHeldAt(log, i)

\* C9 as amended: the reconnection thread runs with the domain object lock
\* it inherited, and makes every mutating call while it holds the job, except
\* the calls of the forced Stop that follows a failure to begin the job.
C9_MutationsUnderJobOrAfterBeginFailure ==
    ReconnectReturned =>
        /\ pre.locked
        /\ \A i \in DOMAIN log : log[i][1] \in MutatingCalls =>
              \/ JobHeldAt(log, i)
              \/ /\ HasRes(log, "virCHDomainObjBeginJob", "fail")
                 /\ \E s \in 1..i : log[s][1] = "virCHProcessStop"

C9_Witness ==
    /\ ReconnectReturned
    /\ HasRes(log, "virCHDomainObjBeginJob", "fail")
    /\ Has(log, "virCHProcessStop")

\* C10: a reconnection thread that began the job ends it exactly once, as
\* its last job call, on every path; one that failed to begin it ends none.
C10_JobEndedOnce ==
    ReconnectReturned =>
        /\ (HasRes(log, "virCHDomainObjBeginJob", "ok") =>
               /\ Count(log, "virCHDomainObjEndJob") = 1
               /\ First(log, "virCHDomainObjBeginJob") < First(log, "virCHDomainObjEndJob")
               /\ vm.job = "none")
        /\ (HasRes(log, "virCHDomainObjBeginJob", "fail") =>
               Count(log, "virCHDomainObjEndJob") = 0)

C10_Witness ==
    /\ ReconnectReturned
    /\ HasRes(log, "virCHDomainObjBeginJob", "ok")
    /\ HasRes(log, "virCHMonitorOpen", "fail")
    /\ Has(log, "virCHDomainObjEndJob")

HelperReturned == last.op = "Helper"

\* C11 as stated: the enumeration callback starts exactly one reconnection
\* thread for a domain with a recorded process id; for a domain without one
\* it starts none and leaves the domain unchanged.
C11_OneTaskPerRecordedPid ==
    HelperReturned =>
        /\ (pre.pid # 0 =>
               /\ Count(log, "virThreadCreateFull") = 1
               /\ HasRes(log, "virThreadCreateFull", "ok")
               /\ task = "spawned")
        /\ (pre.pid = 0 =>
               /\ ~Has(log, "virThreadCreateFull") /\ task = "none"
               /\ vm = pre)

\* C11 as amended: for a domain with a recorded process id the callback makes
\* exactly one attempt to create a reconnection thread; when the thread is
\* created one task is started and it inherits the locked, referenced domain;
\* when it cannot be created no task is started, the domain is stopped with
\* reason "failed", unlocked and unreferenced, and the callback returns -1.
\* For a domain without a process id it starts none and changes nothing.
C11_OneAttemptPerRecordedPid ==
    HelperReturned =>
        /\ (pre.pid # 0 =>
               /\ Count(log, "virThreadCreateFull") = 1
               /\ (HasRes(log, "virThreadCreateFull", "ok") =>
                      /\ task = "spawned" /\ last.ret = 0
                      /\ vm.locked /\ vm.refs = pre.refs + 1
                      /\ ~Has(log, "virCHProcessStop"))
               /\ (HasRes(log, "virThreadCreateFull", "fail") =>
                      /\ task = "none" /\ last.ret = -1
                      /\ StoppedAs(vm, "failed")
                      /\ ~vm.locked /\ vm.refs = pre.refs))
        /\ (pre.pid = 0 =>
               /\ ~Has(log, "virThreadCreateFull") /\ task = "none"
               /\ last.ret = 0
               /\ vm = pre)

C11_Witness ==
    /\ HelperReturned /\ pre.pid \in Pids
    /\ HasRes(log, "virThreadCreateFull", "fail")

\* every removal attempt of the Stop that returned answered "resource busy"
AllAttemptsBusy ==
    /\ StopReturned /\ Has(log, "chRemoveCgroup")
    /\ \A i \in DOMAIN log : log[i][1] = "chRemoveCgroup" => log[i][3] = "EBUSY"

\* C12 as stated: Stop never makes more than 5 removal attempts, and when
\* every attempt answers "resource busy" it makes 5 in total, logs a warning
\* and marks the domain Shutoff.
C12_FiveAttemptsInTotal ==
    StopReturned =>
        /\ Count(log, "chRemoveCgroup") <= 5
        /\ (AllAttemptsBusy =>
               /\ Count(log, "chRemoveCgroup") = 5
               /\ HasRes(log, "VIR_WARN", "cgroup")
               /\ vm.state = "shutoff")

\* C12 as amended: Stop never makes more than 6 removal attempts (the first
\* and 5 retries), and when every attempt answers "resource busy" it makes 6
\* in total, sleeping before each retry, then logs a warning and marks the
\* domain Shutoff.
C12_FiveRetriesAfterFirst ==
    StopReturned =>
        /\ Count(log, "chRemoveCgroup") <= RetryLimit + 1
        /\ (AllAttemptsBusy =>
               /\ Count(log, "chRemoveCgroup") = RetryLimit + 1
               /\ Count(log, "g_usleep") = RetryLimit
               /\ HasRes(log, "VIR_WARN", "cgroup")
               /\ vm.state = "shutoff" /\ last.ret = 0)

C12_Witness ==
    AllAttemptsBusy /\ Count(log, "chRemoveCgroup") = RetryLimit + 1

\* C13: a removal attempt that succeeds, or that fails with an error other
\* than "resource busy", is the last attempt of that Stop; when the first
\* attempt fails with such an error exactly one attempt is made.  Stop then
\* still clears the process id and the id, tries to remove both status
\* files and marks the domain Shutoff.
C13_NoRetryUnlessBusy ==
    StopReturned =>
        /\ \A i, j \in DOMAIN log :
              (log[i][1] = "chRemoveCgroup" /\ log[i][3] # "EBUSY" /\ i < j)
                  => log[j][1] # "chRemoveCgroup"
        /\ (HasRes(log, "chRemoveCgroup", "EIO") =>
               /\ HasRes(log, "VIR_WARN", "cgroup")
               /\ vm.cgroup)
        /\ ((Has(log, "chRemoveCgroup") /\ log[First(log, "chRemoveCgroup")][3] # "EBUSY")
                => Count(log, "chRemoveCgroup") = 1)
        /\ vm.pid = -1 /\ vm.id = -1
        /\ Count(log, "unlink") = 2
        /\ (~HasRes(log, "VIR_WARN", "xml") => vm.status = NoStatus)
        /\ vm.state = "shutoff" /\ last.ret = 0

C13_Witness ==
    /\ StopReturned /\ pre.state = "running"
    /\ Count(log, "chRemoveCgroup") = 1
    /\ HasRes(log, "chRemoveCgroup", "EIO")
    /\ vm.state = "shutoff"

(***************************************************************************)
(* Properties of thread placement (SpecPlace).  After an operation pl      *)
(* holds the context it returned: its name, the definition, the host       *)
(* before (os0) and after (os), the log, the result and, for a single      *)
(* virCHProcessSetupPid, its arguments and locals.                         *)
(***************************************************************************)
SetupPidReturned == pl.op \in {"PlaceThread", "SetupVcpu"}

\* the operation that returned was asked for a CPU bandwidth limit and the
\* domain's cgroup has no CPU controller
BandwidthWithoutCpu ==
    /\ "cpu" \notin pl.d.ctrl
    /\ \/ pl.op = "PlaceThread" /\ BandwidthRequested(pl.a.period, pl.a.quota)
       \/ pl.op \in {"SetupVcpu", "SetupVcpus"} /\ BandwidthRequested(pl.d.period, pl.d.quota)

PlacementEffects ==
    {"virCgroupNewThread", "chSetupCgroupCpusetCpus", "virCgroupSetCpusetMems",
     "chSetupCgroupVcpuBW", "virCgroupAddThread", "virProcessSetAffinity",
     "virProcessSetScheduler"}

\* C14: a placement that is asked for a CPU bandwidth period or quota while
\* no CPU controller is available returns a configuration error before any
\* effect: no sub-scope, no thread moved, no affinity or scheduler changed.
C14_BandwidthNeedsCpuController ==
    BandwidthWithoutCpu =>
        /\ pl.ret = -1
        /\ HasRes(pl.log, "virReportError", "cgroup cpu is required for scheduler tuning")
        /\ pl.os = pl.os0
        /\ \A i \in DOMAIN pl.log : pl.log[i][1] \notin PlacementEffects

C14_Witness ==
    /\ BandwidthWithoutCpu /\ pl.op = "SetupVcpu"
    /\ "cpuset" \in pl.d.ctrl /\ pl.d.quota # 0

NoVcpuPids == \A i \in VcpuIds : pl.d.vcpus[i].tid = 0

ResolvedMask ==
    IF pl.affinity_cpumask # NoMask THEN pl.affinity_cpumask ELSE pl.use_cpumask

\* the call came past the inference of the mask
MaskInferred == SetupPidReturned /\ pl.inferred

\* C16 as stated: the mask is the explicit one if given; otherwise the
\* automatically computed one when the domain has a single NUMA node and
\* strict memory binding; otherwise the domain-wide one; otherwise all online
\* host CPUs.
C16_PrecedenceByNumaBinding ==
    MaskInferred =>
        ResolvedMask =
            IF pl.a.cpumask # NoMask THEN pl.a.cpumask
            ELSE IF pl.d.numaNodes <= 1 /\ pl.d.memMode = "strict" THEN pl.d.autoCpuset
            ELSE IF pl.d.cpumask # NoMask THEN pl.d.cpumask
            ELSE HostCpus

\* C16 as amended: the mask is the explicit one if given; otherwise, when the
\* CPU placement mode of the domain is automatic, the automatically computed
\* one (none if none was computed); otherwise the domain-wide one; otherwise
\* all online host CPUs (none if the host has no CPU bitmap).
C16_PrecedenceByPlacementMode ==
    MaskInferred =>
        ResolvedMask =
            IF pl.a.cpumask # NoMask THEN pl.a.cpumask
            ELSE IF pl.d.mode = "auto" THEN pl.d.autoCpuset
            ELSE IF pl.d.cpumask # NoMask THEN pl.d.cpumask
            ELSE IF pl.os0.hostBitmap THEN HostCpus
            ELSE NoMask

C16_Witness ==
    /\ pl.op = "PlaceThread" /\ pl.ret = 0
    /\ pl.a.cpumask = NoMask /\ pl.d.mode = "auto"
    /\ pl.d.autoCpuset # NoMask /\ pl.d.cpumask # NoMask
    /\ pl.d.numaNodes > 1
    /\ pl.os.aff[pl.a.pid] = pl.d.autoCpuset

AffinityApplied ==
    /\ HasRes(pl.log, "virProcessSetAffinity", "ok")
    /\ pl.os.aff[pl.a.pid] = ResolvedMask
    /\ pl.os.aff[pl.a.pid] # NoMask

\* C17 as stated: every placement that returns success has applied the
\* resolved mask as the affinity of the thread.
C17_SuccessAppliesAffinity ==
    (SetupPidReturned /\ pl.ret = 0) => AffinityApplied

\* C17 as amended: a placement that returns success has applied the resolved
\* mask as the affinity of the thread whenever a mask was resolved, with or
\* without a cgroup controller; when none was resolved (automatic placement
\* without a computed mask, or nothing configured on a host without a CPU
\* bitmap) it succeeds and leaves the affinity as it was.
C17_SuccessAppliesResolvedAffinity ==
    (SetupPidReturned /\ pl.ret = 0) =>
        /\ (ResolvedMask # NoMask => AffinityApplied)
        /\ (ResolvedMask = NoMask =>
               /\ ~Has(pl.log, "virProcessSetAffinity")
               /\ pl.os.aff = pl.os0.aff
               /\ pl.a.cpumask = NoMask
               /\ \/ pl.d.mode = "auto" /\ pl.d.autoCpuset = NoMask
                  \/ pl.d.mode # "auto" /\ pl.d.cpumask = NoMask /\ ~pl.os0.hostBitmap)

C17_Witness ==
    /\ pl.op = "PlaceThread" /\ pl.ret = 0
    /\ pl.d.ctrl = {} /\ pl.a.cpumask = NoMask /\ pl.d.cpumask = NoMask
    /\ pl.os.aff[pl.a.pid] = HostCpus

\* C18: the scheduler of an emulator thread is never changed, whatever
\* scheduler parameters are given; a placement of another role that is given
\* scheduler parameters and succeeds has set them on the thread.
C18_NoSchedulerForEmulator ==
    SetupPidReturned =>
        /\ (pl.a.nameval = "emulator" =>
               /\ pl.os.sched = pl.os0.sched
               /\ ~Has(pl.log, "virProcessSetScheduler"))
        /\ ((pl.a.nameval # "emulator" /\ pl.a.sched # NoSched /\ pl.ret = 0) =>
               /\ HasRes(pl.log, "virProcessSetScheduler", "ok")
               /\ (pl.a.sched.policy # "none" => pl.os.sched[pl.a.pid] = pl.a.sched))

C18_Witness ==
    /\ pl.op = "PlaceThread" /\ pl.ret = 0
    /\ pl.a.nameval = "emulator" /\ pl.a.sched.policy = "fifo"

\* the call created its sub-scope
SubScopeCreated ==
    \E i \in DOMAIN pl.log : pl.log[i][1] = "virCgroupNewThread" /\ pl.log[i][3] # "fail"

\* C19: a placement that fails after it created its sub-scope has removed
\* the sub-scope when it returns; one that succeeds removes nothing and,
\* with a controller, leaves the thread in its sub-scope.
C19_FailureRemovesSubScope ==
    SetupPidReturned =>
        /\ ((pl.ret < 0 /\ SubScopeCreated) =>
               /\ Has(pl.log, "virCgroupRemove")
               /\ ~pl.os.scopes[<<pl.a.nameval, pl.a.id>>].exists
               /\ pl.os.scopes = pl.os0.scopes)
        /\ (pl.ret = 0 =>
               /\ ~Has(pl.log, "virCgroupRemove")
               /\ (pl.d.ctrl # {} =>
                      /\ pl.os.scopes[<<pl.a.nameval, pl.a.id>>].exists
                      /\ pl.a.pid \in pl.os.scopes[<<pl.a.nameval, pl.a.id>>].members))

C19_Witness ==
    /\ pl.op = "PlaceThread" /\ pl.ret < 0 /\ SubScopeCreated
    /\ HasRes(pl.log, "virProcessSetScheduler", "fail")

\* the thread placement of a Start that succeeded, for a domain whose vCPUs
\* have no mask of their own and whose domain-wide mask is set
DomainWideMaskOnly ==
    /\ pl.op = "SetupThreads" /\ pl.ret = 0
    /\ pl.d.cpumask # NoMask
    /\ \A i \in VcpuIds : pl.d.vcpus[i].cpumask = NoMask

VcpuPlacedAlone(i, mask) ==
    /\ pl.os.aff[VcpuTid(i)] = mask
    /\ ("cpuset" \in pl.d.ctrl =>
           /\ pl.os.scopes[<<"vcpu", i>>].exists
           /\ pl.os.scopes[<<"vcpu", i>>].members = {VcpuTid(i)})

\* C20 as stated: with no per-vCPU mask and the domain-wide mask M, after the
\* thread placement of a successful Start every online vCPU thread has
\* affinity M and, with a cpuset controller, is the only member of a
\* sub-scope of its own.
C20_VcpusGetDomainMask ==
    DomainWideMaskOnly =>
        \A i \in OnlineVcpus(pl.d) : VcpuPlacedAlone(i, pl.d.cpumask)

\* C20 as amended: the same, for a domain whose CPU placement mode is not
\* automatic and for the online vCPUs whose thread id the hypervisor reported.
C20_ReportedVcpusGetDomainMask ==
    (DomainWideMaskOnly /\ pl.d.mode # "auto") =>
        \A i \in OnlineVcpus(pl.d) :
            pl.d.vcpus[i].tid # 0 =>
                pl.d.vcpus[i].tid = VcpuTid(i) /\ VcpuPlacedAlone(i, pl.d.cpumask)

C20_Witness ==
    /\ DomainWideMaskOnly /\ pl.d.mode # "auto" /\ "cpuset" \in pl.d.ctrl
    /\ Cardinality(OnlineVcpus(pl.d)) >= 2
    /\ \A i \in OnlineVcpus(pl.d) : pl.d.vcpus[i].tid # 0


(***************************************************************************)
(* Properties of Start, Stop and recovery, continued.                      *)
(***************************************************************************)
\* the threads for which the operation created a sub-scope that no later
\* removal of the domain's cgroup took away with it
SubScopesLeft(l) ==
    {l[i][2] : i \in {k \in DOMAIN l :
        /\ l[k][1] = "virCHProcessSetupPid"
        /\ l[k][3] \in {kind \o ":ok" : kind \in ThreadKinds}
        /\ ~\E j \in (k+1)..Len(l) : l[j][1] = "chRemoveCgroup" /\ l[j][3] = "ok"}}

\* C21: whenever Start returns failure the host devices reserved for the
\* domain have been released and no per-thread sub-scope created during that
\* Start remains.
C21_StartFailureReleasesAll ==
    (StartReturned /\ last.ret # 0) =>
        /\ ~vm.hostdevs
        /\ SubScopesLeft(log) = {}


HandoffReturned == last.op = "AddNetworkDevices"

HandoffFailedAfter(l, i) ==
    /\ last.ret = -1
    /\ Len(l) = i + 1
    /\ l[i + 1] = <<"close_socket", 0, "err">>

\* C22: the handoff takes the response for a device for success only if its
\* status is 200 or 204: after any other status, and after a failure to
\* receive a response, it returns failure at once, and a handoff that returns
\* success has received 200 or 204 for every device.
C22_OnlyStatus200Or204 ==
    HandoffReturned =>
        /\ \A i \in DOMAIN log : log[i][1] = "virSocketRecvHttpResponse" =>
              IF log[i][3] \in {"200", "204"}
              THEN ~HandoffFailedAfter(log, i)
              ELSE HandoffFailedAfter(log, i)
        /\ (last.ret = 0 =>
               \A dev \in 1..vm.nnets : \E i \in DOMAIN log :
                   /\ log[i][1] = "virSocketRecvHttpResponse" /\ log[i][2] = dev
                   /\ log[i][3] \in {"200", "204"})

C22_Witness ==
    /\ HandoffReturned /\ last.ret = -1
    /\ HasRes(log, "virSocketRecvHttpResponse", "204")
    /\ HasRes(log, "virSocketRecvHttpResponse", "201")

\* the calls made for one device, and those that failed
DeviceCalls ==
    {"virCHMonitorBuildNetJson", "virSocketSendMsgWithFD", "close_fds",
     "virSocketRecvHttpResponse"}

DeviceFailedAt(l, i) ==
    /\ l[i][1] \in DeviceCalls
    /\ \/ l[i][3] = "fail"
       \/ l[i][1] = "virSocketRecvHttpResponse" /\ l[i][3] \notin {"200", "204"}

HandoffCalls == DeviceCalls \cup {"socket", "virStrcpyStatic", "connect", "close_socket"}

\* C23: the handoff takes the devices in configuration order; the first
\* failure, for device k, ends it: failure is returned, the only call after
\* the one that failed closes the control socket, so nothing is sent for a
\* device after k and nothing is sent again for the devices before k, each
\* of which got its one request and a success status.
C23_FirstFailureAborts ==
    HandoffReturned =>
        /\ \A i \in DOMAIN log : log[i][1] \in HandoffCalls
        /\ \A i, j \in DOMAIN log :
              (i < j /\ log[i][1] \in DeviceCalls /\ log[j][1] \in DeviceCalls)
                  => log[i][2] <= log[j][2]
        /\ \A dev \in 1..vm.nnets :
              Cardinality({i \in DOMAIN log :
                  log[i][1] = "virSocketSendMsgWithFD" /\ log[i][2] = dev}) <= 1
        /\ \A i \in DOMAIN log : DeviceFailedAt(log, i) =>
              /\ HandoffFailedAfter(log, i)
              /\ \A dev \in 1..(log[i][2] - 1) :
                    /\ \E s \in 1..i : log[s] = <<"virSocketSendMsgWithFD", dev, "ok">>
                    /\ \E s \in 1..i : /\ log[s][1] = "virSocketRecvHttpResponse"
                                       /\ log[s][2] = dev
                                       /\ log[s][3] \in {"200", "204"}

C23_Witness ==
    /\ HandoffReturned /\ vm.nnets = 3 /\ last.ret = -1
    /\ <<"virSocketSendMsgWithFD", 1, "ok">> \in {log[i] : i \in DOMAIN log}
    /\ <<"virSocketSendMsgWithFD", 2, "fail">> \in {log[i] : i \in DOMAIN log}


\* no recovery of the domain is pending or running
RecoveryDone == enumerated /\ task = "none"

\* C24: whenever no operation on the domain is in progress, a Running domain
\* has exactly one live Monitor Connection and a Shutoff domain has none; in
\* particular a Start that returned failure leaves no live Monitor Connection
\* behind.
C24_MonitorIffRunning ==
    RecoveryDone =>
        /\ (vm.state = "running" => vm.monitor /\ vm.nlive = 1)
        /\ (vm.state = "shutoff" => ~vm.monitor /\ vm.nlive = 0)
        /\ ((StartReturned /\ last.ret # 0) => ~vm.monitor /\ vm.nlive = 0)


\* C25: Close is called at most once on a Monitor Connection and never on a
\* null one: every Close of an operation is called on the connection the
\* domain refers to, which is open, and the reference is cleared with it, so
\* that the domain never refers to a connection that was closed.
C25_CloseOncePerConnection ==
    /\ (vm.monitor => vm.nlive >= 1)
    /\ \A i \in DOMAIN log : log[i][1] = "virCHMonitorClose" => log[i][3] = "open"
    /\ Count(log, "virCHMonitorClose") <= 1
    /\ (Has(log, "virCHMonitorClose") =>
           /\ ~vm.monitor
           /\ \/ pre.monitor /\ pre.nlive >= 1
              \/ HasRes(log, "virCHMonitorNew", "ok")
              \/ HasRes(log, "virCHMonitorOpen", "ok"))

C25_Witness ==
    /\ ReconnectReturned
    /\ HasRes(log, "virCHMonitorOpen", "ok")
    /\ Has(log, "virCHMonitorClose")


\* entry k of the log comes after a boot command that succeeded and after a
\* refresh of the thread inventory that followed that boot
AfterBootAndRefresh(l, k) ==
    \E b, r \in 1..(k-1) :
        /\ b < r
        /\ l[b] = <<"virCHMonitorBootVM", 0, "ok">>
        /\ l[r][1] = "virCHMonitorRefreshThreadInfo" /\ l[r][3] = "ok"

CgroupSetUpBefore(l, k) == \E g \in 1..(k-1) : l[g] = <<"chSetupCgroup", 0, "ok">>

\* C26: in every Start, each placement of a thread comes after the boot
\* command succeeded and after a refresh of the thread inventory that
\* followed it, and the domain's cgroup was set up before the boot command
\* and before any placement.
C26_PlacementAfterBoot ==
    StartReturned =>
        \A k \in DOMAIN log :
            /\ (log[k][1] = "virCHProcessSetupPid" =>
                   AfterBootAndRefresh(log, k) /\ CgroupSetUpBefore(log, k))
            /\ (log[k][1] = "virCHMonitorBootVM" => CgroupSetUpBefore(log, k))

C26_Witness ==
    /\ StartReturned /\ last.ret = 0
    /\ Has(log, "virCHProcessSetupPid")


PausedForShutdownReported ==
    /\ ReconnectReturned
    /\ pre.state = "paused" /\ pre.reason = "shutting down"
    /\ HasRes(log, "virCHMonitorGetInfo", "Paused")

\* C29: when the state query of the reconnection thread finds the hypervisor
\* paused for shutdown, the thread completes the stop sequence: the domain
\* ends Shutoff, without a Monitor Connection.
C29_PausedForShutdownStops ==
    PausedForShutdownReported =>
        /\ Has(log, "virCHProcessStop")
        /\ vm.state = "shutoff" /\ ~vm.monitor


\* every step of the reconnection thread succeeded and, after the state
\* query, the domain is neither Shutdown nor paused for shutdown
ReconnectResumes ==
    /\ ReconnectReturned /\ ~ReconnectFailed
    /\ Has(log, "virCHMonitorGetInfo")
    /\ ~HasRes(log, "virCHMonitorGetInfo", "Shutdown")
    /\ ~(ShutdownPending(pre) /\ HasRes(log, "virCHMonitorGetInfo", "nokey"))

Visited(d) == reg.pos > d

EnumerationDone == reg.pos = NumDomains + 1

SpawnFailed(d) == HasRes(reg.helper[d].log, "virThreadCreateFull", "fail")

TaskGiven(d) ==
    /\ HasRes(reg.helper[d].log, "virThreadCreateFull", "ok")
    /\ reg.helper[d].ret = 0
    /\ d \in reg.tasks \cup reg.ran

StoppedByHelper(d) ==
    /\ HasRes(reg.helper[d].log, "virCHProcessStop", "failed")
    /\ StoppedAs(reg.objs[d], "failed")
    /\ d \notin reg.tasks \cup reg.ran

\* C30: a domain with a recorded process id whose reconnection thread cannot
\* be created is stopped with reason "failed" by the enumerating thread and
\* the helper returns failure for it; when the enumeration is over every
\* domain with a recorded process id was given a thread of its own or was
\* stopped, whichever domains the creation of the thread failed for.
C30_SpawnFailureStopsOnlyThatDomain ==
    /\ \A d \in DomIds : (Visited(d) /\ SpawnFailed(d)) =>
          /\ reg.objs0[d].pid # 0
          /\ reg.helper[d].ret = -1 /\ reg.ret = -1
          /\ StoppedByHelper(d)
    /\ EnumerationDone =>
          \A d \in DomIds : reg.objs0[d].pid # 0 => (TaskGiven(d) \/ StoppedByHelper(d))

C30_Witness ==
    /\ EnumerationDone
    /\ \A d \in {1, 2, 3} : reg.objs0[d].pid # 0
    /\ SpawnFailed(2) /\ TaskGiven(1) /\ TaskGiven(3)
    /\ 1 \in reg.ran /\ 3 \in reg.tasks

\* virCHProcessSetupThreads returned, on the placement context
SetupThreadsReturned == pl.op = "SetupThreads"

PlRefreshFailed == HasRes(pl.log, "virCHMonitorRefreshThreadInfo", "fail")

PlPlacementFailed == HasRes(pl.log, "virCHProcessSetupPid:return", "-1")

PlPersistFailed == HasRes(pl.log, "virDomainObjSave", "fail")

\* virCHProcessSetupVcpus refused the configuration before placing a vCPU
VcpuConfigRejected ==
    \E i \in DOMAIN pl.log :
        /\ i > 1
        /\ pl.log[i][1] = "virReportError"
        /\ pl.log[i - 1][1] = "virCHProcessSetupVcpus"

RoleRank(kind) == IF kind = "emulator" THEN 1 ELSE IF kind = "iothread" THEN 2 ELSE 3

\* emulator threads, then I/O threads, then vCPUs; nothing is placed after a
\* placement that failed; the record is persisted after every placement and
\* only when none failed; zero threads: success and nothing placed
SetupThreadsOrder ==
    /\ \A i, j \in DOMAIN pl.log :
          (i < j /\ pl.log[i][1] = "virCHProcessSetupPid" /\ pl.log[j][1] = "virCHProcessSetupPid")
              => RoleRank(pl.log[i][3]) <= RoleRank(pl.log[j][3])
    /\ \A i, j \in DOMAIN pl.log :
          (i < j /\ pl.log[i][1] = "virCHProcessSetupPid:return" /\ pl.log[i][3] = "-1")
              => pl.log[j][1] \notin {"virCHProcessSetupPid", "virDomainObjSave"}
    /\ \A i \in DOMAIN pl.log :
          pl.log[i][1] = "virDomainObjSave" =>
              /\ i = Len(pl.log)
              /\ ~PlPlacementFailed
              /\ \A k \in DOMAIN pl.threads :
                    pl.threads[k].type \in {"emulator", "iothread"} =>
                        \E j \in 1..(i - 1) :
                            /\ pl.log[j][1] = "virCHProcessSetupPid:return"
                            /\ pl.log[j][2] = pl.threads[k].tid
                            /\ pl.log[j][3] = "0"
    /\ (pl.ret = 0 /\ pl.threads # <<>>) => HasRes(pl.log, "virDomainObjSave", "ok")
    /\ (~PlRefreshFailed /\ pl.threads = <<>>) =>
          /\ pl.ret = 0
          /\ pl.os = pl.os0
          /\ ~Has(pl.log, "virCHProcessSetupPid")
          /\ ~Has(pl.log, "virDomainObjSave")

\* C31 as stated: SetupThreads returns failure if and only if the thread
\* inventory refresh fails, or the placement of some Emulator, IOThread or
\* vCPU thread fails, or the final persist fails; it places Emulator threads,
\* then IOThreads, then vCPUs, stops at the first failing placement, persists
\* only after all placements succeeded, and with zero threads reported it
\* returns success having placed nothing.
C31_FailureIffRefreshPlacementPersist ==
    SetupThreadsReturned =>
        /\ (pl.ret < 0 <=> (PlRefreshFailed \/ PlPlacementFailed \/ PlPersistFailed))
        /\ SetupThreadsOrder

\* C31 as amended: the same, with one more cause of failure: the vCPU stage
\* refuses the configuration before it places any vCPU (bandwidth limits
\* without a CPU controller, or a custom per-vCPU affinity while no vCPU
\* thread id is reported).
C31_FailureIffRefreshPlacementConfigPersist ==
    SetupThreadsReturned =>
        /\ (pl.ret < 0 <=>
               (PlRefreshFailed \/ PlPlacementFailed \/ VcpuConfigRejected \/ PlPersistFailed))
        /\ SetupThreadsOrder

C31_Witness ==
    /\ SetupThreadsReturned /\ pl.ret < 0
    /\ VcpuConfigRejected
    /\ ~PlPlacementFailed /\ ~PlRefreshFailed /\ ~PlPersistFailed
    /\ HasRes(pl.log, "virCHProcessSetupPid:return", "0")

\* C32: when SetupThreads aborts with a configuration error of the vCPU
\* stage (bandwidth limits without a CPU controller, or a custom per-vCPU
\* affinity while no vCPU thread id is reported), the call has touched no
\* resource of the domain: no per-thread sub-scope was created and no
\* thread's affinity or scheduler was changed, emulator and I/O threads
\* included.
C32_ConfigErrorTouchesNothing ==
    (SetupThreadsReturned /\ VcpuConfigRejected) =>
        /\ pl.os = pl.os0
        /\ ~Has(pl.log, "virCgroupNewThread")
        /\ ~Has(pl.log, "virProcessSetAffinity")
        /\ ~Has(pl.log, "virProcessSetScheduler")

\* log entry i is a call made by virCHProcessStop
InsideStop(l, i) ==
    \E j \in 1..(i - 1) :
        /\ l[j][1] = "virCHProcessStop"
        /\ \A k \in (j + 1)..(i - 1) : l[k][1] # "virCHProcessStop:return"

\* C33: a per-thread sub-scope exists only while the domain-level scope of
\* its domain exists, and the removal of the domain-level scope is attempted
\* only by Stop: never by Start's own steps, by the thread placement or by a
\* recovery that succeeds.
C33_ScopeOutlivesSubScopes ==
    /\ (vm.subscopes # {} => vm.scope)
    /\ \A i \in DOMAIN log : log[i][1] = "chRemoveCgroup" => InsideStop(log, i)
    /\ ((pre.scope /\ ~vm.scope) => HasRes(log, "chRemoveCgroup", "ok"))
    /\ (~Has(log, "virCHProcessStop") => vm.scope = (pre.scope \/ HasRes(log, "chSetupCgroup", "ok")))

C33_Witness ==
    /\ StopReturned
    /\ pre.subscopes # {} /\ pre.scope
    /\ HasRes(log, "chRemoveCgroup", "ok")
    /\ vm.subscopes = {} /\ ~vm.scope

\* C34: every filter-update read lock the enumeration takes for a domain is
\* released once: by the enumerating thread when the reconnection thread
\* cannot be created, or by the time the reconnection thread has finished;
\* when every reconnection thread has finished none is still held.
C34_FilterLocksReleased ==
    /\ \A d \in DomIds : (Visited(d) /\ SpawnFailed(d)) =>
          /\ Count(reg.helper[d].log, "virNWFilterUnlockFilterUpdates") = 1
          /\ reg.objs[d].nwlocks = 0
    /\ \A d \in reg.ran : reg.objs[d].nwlocks = 0
    /\ (EnumerationDone /\ reg.tasks = {}) => \A d \in DomIds : reg.objs[d].nwlocks = 0

\* C35: the lock on the domain object and the extra reference that the
\* enumeration takes for a domain are each released exactly once on every
\* path: by the reconnection thread when it finishes (success, finished
\* shutdown or error), or by the enumerating thread when the thread could
\* not be created; never by both and never by neither.
C35_LockAndReferenceReleasedOnce ==
    /\ (HelperReturned /\ pre.pid # 0) =>
          /\ Count(log, "virObjectLock") = 1
          /\ (HasRes(log, "virThreadCreateFull", "fail") =>
                 /\ Count(log, "virDomainObjEndAPI") = 1
                 /\ ~vm.locked /\ vm.refs = pre.refs
                 /\ task = "none")
          /\ (HasRes(log, "virThreadCreateFull", "ok") =>
                 /\ Count(log, "virDomainObjEndAPI") = 0
                 /\ vm.locked /\ vm.refs = pre.refs + 1
                 /\ task = "spawned")
    /\ ReconnectReturned =>
          /\ pre.locked
          /\ Count(log, "virDomainObjEndAPI") = 1
          /\ ~vm.locked /\ vm.refs = pre.refs - 1
          /\ task = "none"
    /\ (task = "spawned" => vm.locked /\ vm.refs = 2)
    /\ (task = "none" => ~vm.locked /\ vm.refs = 1)

C35_Witness ==
    /\ ReconnectReturned
    /\ HasRes(log, "virCHDomainObjBeginJob", "fail")
    /\ pre.locked /\ pre.refs = 2
    /\ ~vm.locked /\ vm.refs = 1

\* C36: the control socket that the network device handoff opens is closed
\* exactly once before the handoff returns, on every exit path: success,
\* socket path too long, connect failure, bundle build failure, send
\* failure, receive failure and non-success status.
C36_SocketClosedOnce ==
    (HandoffReturned /\ HasRes(log, "socket", "ok")) => Count(log, "close_socket") = 1

\* C37: for every network device whose descriptor bundle the handoff opened,
\* the caller-side descriptors of the bundle are closed by the time the
\* handoff returns, whether the request of the device succeeded, its send
\* failed or its response was a failure.
C37_BundleDescriptorsClosed ==
    HandoffReturned =>
        \A i \in DOMAIN log :
            (log[i][1] = "virCHMonitorBuildNetJson" /\ log[i][3] = "ok") =>
                \E j \in DOMAIN log :
                    j > i /\ log[j][1] = "close_fds" /\ log[j][2] = log[i][2]

\* C38: after Stop has completed the domain counts as having no recorded
\* process id: the enumeration callback called on it skips it and creates
\* no reconnection thread, and the process-affinity setup refuses to run on
\* it because its process is not started.
C38_StoppedDomainHasNoPid ==
    StopReturned =>
        /\ HelperSkips(vm)
        /\ ~Has(chProcessReconnectHelper(Ctx(vm), "ok", NoStopOracle).log, "virThreadCreateFull")
        /\ virCHProcessInitCpuAffinity(Ctx(vm), [fail |-> "none"]).ret < 0

\* C39: Stop always terminates, also when the removal of the cgroup answers
\* busy at every attempt, and so every reconnection thread that was created
\* eventually finishes, with the job of its domain ended if it was begun,
\* and the domain object unlocked, when the threads are scheduled fairly.
C39_RecoveryTasksFinish ==
    \A d \in TaskIds :
        /\ (reg.run[d].pc \in {"retry", "sleep"}) ~>
              (reg.run[d].pc = "cleanup" /\ reg.objs[d].state = "shutoff")
        /\ (reg.run[d].pc = "spawned") ~>
              (reg.run[d].pc = "done" /\ reg.objs[d].job = "none" /\ ~reg.objs[d].locked)
        /\ [](reg.run[d].pc = "done" => (reg.objs[d].job = "none" /\ ~reg.objs[d].locked))

C39_Witness ==
    \E d \in TaskIds :
        /\ reg.run[d].pc = "done"
        /\ reg.run[d].retries = RetryLimit
        /\ reg.run[d].jobStarted
        /\ reg.objs[d].cgroup
        /\ reg.objs[d].state = "shutoff"
        /\ reg.objs[d].job = "none" /\ ~reg.objs[d].locked

VersionReturned == reg.op = "ExtractVersion"

\* C40: the version check accepts a version if and only if it is at least
\* 0.9.0: with the version encoded as 1000000*major + 1000*minor + micro,
\* extraction fails exactly when major is 0 and minor is below 9; once a
\* positive version is stored in the driver, a later extraction call succeeds
\* without asking the hypervisor again and leaves the stored version
\* unchanged.
C40_VersionAtLeast090 ==
    VersionReturned =>
        /\ (reg.queried /\ reg.answer.kind = "version") =>
              /\ (reg.ret < 0 <=> (reg.answer.major = 0 /\ reg.answer.minor < 9))
              /\ (reg.ret = 0 =>
                     reg.version = 1000000 * reg.answer.major + 1000 * reg.answer.minor
                                   + reg.answer.micro)
        /\ (reg.before > 0 => (~reg.queried /\ reg.ret = 0 /\ reg.version = reg.before))
        /\ (reg.before <= 0 => reg.queried)

====
